---- MODULE Spec2Model ----
(***************************************************************************)
(* Model of the GeoIntel analyze pipeline: the TTL cache with in-flight    *)
(* deduplication (cacheService), the POST /api/analyze handler             *)
(* (routes/analyze.js) and the scoring engine (scoringService).            *)
(*                                                                         *)
(* Scheduling is Node's: a handler runs to completion up to its first      *)
(* await, and the promise reactions that a settlement triggers all drain   *)
(* before the next I/O callback.  One action is therefore one macrotask:   *)
(* the arrival of a request, or the settlement of one provider call.       *)
(*                                                                         *)
(* Numbers: raw metrics are kept in tenths (21.5 C is 215), weights in     *)
(* thousandths, logarithms in 1e-5 units; Math.round(x) is                 *)
(* floor(x + 1/2), computed exactly on integers.                           *)
(*                                                                         *)
(* A local the code computes once and reads several times is bound as      *)
(* x \in {e} inside CHOOSE out \in {body : x \in {e}} : TRUE, the value of   *)
(* body with x = e, so that e is evaluated once.                           *)
(*                                                                         *)
(* Spec is the pipeline under concurrent requests; SpecLive is Spec with   *)
(* every provider call settling in the end; SpecScoring calls the scoring  *)
(* functions alone, on datasets over the whole range of metrics.           *)
(***************************************************************************)
EXTENDS Integers, Sequences, FiniteSets, TLC

VARIABLES now, store, inFlight, producers, heap, req, calc

vars == <<now, store, inFlight, producers, heap, req, calc>>

\* ------------------------------------------------------------------ bounds
MaxRequests == 2
MaxRanked == 3

\* --------------------------------------------------------------- constants
TTL_MS == 60 * 60 * 1000
MIN_COUNTRIES == 3
MAX_COUNTRIES == 10
VALID_RISK == {"low", "moderate", "high"}
VALID_DURATION == {"short", "long"}

\* null / undefined / NaN of a numeric field, and the null object
Null == -999999
NullObj == [isNull |-> TRUE]
NoEntry == [data |-> 0, expiresAt |-> 0]
NoPromise == 0

\* The clock readings at which macrotasks run: start-up, then 59, 60 and
\* 61 minutes later.
Instants == {0, 59 * 60 * 1000, TTL_MS, 61 * 60 * 1000}

\* ------------------------------------------------------------------ strings
\* The country names a request can carry, as typed by the client.
RawNames == {"France", "france", "Peru "}

\* String.prototype.trim on the names above and on a blank entry.
trim(s) == IF s = "Peru " THEN "Peru" ELSE IF s = " " THEN "" ELSE s

\* String.prototype.toLowerCase on the names and profile words above.
toLowerCase(s) ==
  CASE s = "France" -> "france"
    [] s = "Peru" -> "peru"
    [] s = "Peru " -> "peru "
    [] s = "LOW" -> "low"
    [] s = "Long" -> "long"
    [] OTHER -> s

cacheKey(countryName) == "country:" \o toLowerCase(countryName)

Names == {trim(c) : c \in RawNames}
Keys == {cacheKey(n) : n \in Names}

\* ------------------------------------------------------------ normalization
Max(a, b) == IF a >= b THEN a ELSE b
Min(a, b) == IF a <= b THEN a ELSE b
Abs(a) == IF a < 0 THEN -a ELSE a

\* Math.round of the rational n/d, d > 0: floor(n/d + 1/2).
Round(n, d) == (2 * n + d) \div (2 * d)

\* A faulty normalize that reads the direction flag the wrong way round.
normalizeFlipped(value, min, max, higherIsBetter, defaultScore) ==
  IF value = Null THEN defaultScore
  ELSE LET clamped == Max(min, Min(max, value))
           num == IF higherIsBetter THEN max - clamped ELSE clamped - min
       IN Round(100 * num, max - min)

\* A faulty normalize that ignores the direction flag.
normalizeNoFlag(value, min, max, higherIsBetter, defaultScore) ==
  IF value = Null THEN defaultScore
  ELSE LET clamped == Max(min, Min(max, value))
       IN Round(100 * (clamped - min), max - min)

\* A faulty normalize that takes a raw 0 for a missing value (!value).
normalizeZeroMissing(value, min, max, higherIsBetter, defaultScore) ==
  IF value = Null \/ value = 0 THEN defaultScore
  ELSE LET clamped == Max(min, Min(max, value))
           num == IF higherIsBetter THEN clamped - min ELSE max - clamped
       IN Round(100 * num, max - min)

\* A faulty normalize that scales the value without clamping it to the range.
normalizeUnclamped(value, min, max, higherIsBetter, defaultScore) ==
  IF value = Null THEN defaultScore
  ELSE LET num == IF higherIsBetter THEN value - min ELSE max - value
       IN Round(100 * num, max - min)

normalize(value, min, max, higherIsBetter, defaultScore) ==
  IF value = Null THEN defaultScore
  ELSE LET clamped == Max(min, Min(max, value))
           num == IF higherIsBetter THEN clamped - min ELSE max - clamped
       IN Round(100 * num, max - min)

\* A weatherSeverityPenalty whose cloud band has no upper end.
weatherSeverityPenaltyOpenClouds(weatherId) ==
  IF weatherId = Null \/ weatherId = 0 THEN 0
  ELSE IF weatherId >= 200 /\ weatherId < 300 THEN 70
  ELSE IF weatherId >= 300 /\ weatherId < 400 THEN 20
  ELSE IF weatherId >= 500 /\ weatherId < 600 THEN 40
  ELSE IF weatherId >= 600 /\ weatherId < 700 THEN 60
  ELSE IF weatherId >= 700 /\ weatherId < 800 THEN 50
  ELSE IF weatherId = 800 THEN 0
  ELSE IF weatherId > 800 THEN 10
  ELSE 0

weatherSeverityPenalty(weatherId) ==
  IF weatherId = Null \/ weatherId = 0 THEN 0
  ELSE IF weatherId >= 200 /\ weatherId < 300 THEN 70
  ELSE IF weatherId >= 300 /\ weatherId < 400 THEN 20
  ELSE IF weatherId >= 500 /\ weatherId < 600 THEN 40
  ELSE IF weatherId >= 600 /\ weatherId < 700 THEN 60
  ELSE IF weatherId >= 700 /\ weatherId < 800 THEN 50
  ELSE IF weatherId = 800 THEN 0
  ELSE IF weatherId > 800 /\ weatherId < 810 THEN 10
  ELSE 0

\* temperatures in tenths of a degree: ideal 21.5, range 0..40
tempComfortScore(tempCelsius) ==
  IF tempCelsius = Null THEN 50
  ELSE normalize(Abs(tempCelsius - 215), 0, 400, FALSE, 50)

\* optional chaining obj?.field on a nullable record
Opt(obj, field) == IF obj = NullObj THEN Null ELSE obj[field]

\* Math.log10 in 1e-5 units, for the populations the provider reports.
Log10(n) ==
  CASE n = 10 -> 100000
    [] n = 100000 -> 500000
    [] n = 1000000 -> 600000
    [] n = 67000000 -> 782607
    [] n = 1400000000 -> 914613
    [] n = 2000000000 -> 930103

\* Math.round(Math.max(0, Math.min(100, raw))) with raw = raw100 / 100
RoundClamp(raw100) == Round(Max(0, Min(100 * 100, raw100)), 100)

computeTravelRiskScore(data) ==
  LET weather == data.weather
      tempScore == IF Opt(weather, "temp_celsius") # Null
                     THEN tempComfortScore(weather.temp_celsius) ELSE 50
      aqiScore == normalize(Opt(data.aqi, "aqi"), 0, 300, FALSE, 50)
      advisoryScore == normalize(Opt(data.advisory, "score"), 10, 50, FALSE, 50)
      weatherEvtScore == 100 - weatherSeverityPenalty(Opt(weather, "weather_id"))
      raw100 == tempScore * 20 + aqiScore * 30 + advisoryScore * 35
                  + weatherEvtScore * 15
  IN [score |-> RoundClamp(raw100),
      components |-> [temperature_comfort |-> tempScore,
                      air_quality |-> aqiScore,
                      travel_advisory |-> advisoryScore,
                      weather_event |-> weatherEvtScore]]

computeHealthInfrastructureScore(data) ==
  LET worldBank == data.worldBank
      healthExpScore == normalize(worldBank.healthcareExpenditure, 10, 150, TRUE, 50)
      lifeExpScore == normalize(worldBank.lifeExpectancy, 450, 900, TRUE, 50)
      population == Opt(data.profile, "population")
      popPressureScore ==
        IF population # Null /\ population # 0
          THEN normalize(Log10(population), Log10(100000), Log10(2000000000), FALSE, 50)
          ELSE 50
      raw100 == healthExpScore * 40 + lifeExpScore * 45 + popPressureScore * 15
  IN [score |-> RoundClamp(raw100),
      components |-> [healthcare_expenditure |-> healthExpScore,
                      life_expectancy |-> lifeExpScore,
                      population_pressure |-> popPressureScore]]

computeEnvironmentalStabilityScore(data) ==
  LET weather == data.weather
      aqiEnvScore == normalize(Opt(data.aqi, "aqi"), 0, 300, FALSE, 50)
      volatilityScore ==
        IF Opt(weather, "temp_max") # Null /\ Opt(weather, "temp_min") # Null
          THEN normalize(weather.temp_max - weather.temp_min, 0, 200, FALSE, 50)
          ELSE 50
      windScore == normalize(Opt(weather, "wind_speed_ms"), 0, 200, FALSE, 50)
      humidityScore ==
        IF Opt(weather, "humidity_pct") # Null
          THEN normalize(Abs(weather.humidity_pct - 45), 0, 55, FALSE, 50)
          ELSE 50
      raw100 == aqiEnvScore * 35 + volatilityScore * 25 + windScore * 15
                  + humidityScore * 25
  IN [score |-> RoundClamp(raw100),
      components |-> [air_quality_stability |-> aqiEnvScore,
                      temperature_volatility |-> volatilityScore,
                      wind_comfort |-> windScore,
                      humidity_comfort |-> humidityScore]]

\* ------------------------------------------------------------------ weights
\* The README's table "Dynamic Weight Profiles", in percent.
DynamicWeightProfiles(riskTolerance, duration) ==
  LET row == CASE riskTolerance = "low" /\ duration = "short" -> <<45, 27, 28>>
               [] riskTolerance = "low" /\ duration = "long" -> <<38, 42, 20>>
               [] riskTolerance = "moderate" /\ duration = "short" -> <<40, 27, 33>>
               [] riskTolerance = "moderate" /\ duration = "long" -> <<35, 42, 23>>
               [] riskTolerance = "high" /\ duration = "short" -> <<30, 25, 45>>
               [] riskTolerance = "high" /\ duration = "long" -> <<27, 38, 35>>
  IN [travel_risk_score |-> row[1], health_infrastructure_score |-> row[2],
      environmental_stability_score |-> row[3]]

\* A faulty adjustment that adds the deltas and leaves out the division by
\* the new sum.
AdjustNoRenormalize(w, dt, dh, de) ==
  [t |-> 100 * w.t + dt * w.den,
   h |-> 100 * w.h + dh * w.den,
   e |-> 100 * w.e + de * w.den,
   den |-> 100 * w.den]

\* A weight triple is kept exactly as numerators t, h, e over the common
\* denominator den.  Adjust adds the deltas (in hundredths) and divides the
\* three by their new sum.
Adjust(w, dt, dh, de) ==
  CHOOSE out \in {[t |-> v.t, h |-> v.h, e |-> v.e, den |-> v.t + v.h + v.e] :
                    v \in {[t |-> 100 * w.t + dt * w.den,
                            h |-> 100 * w.h + dh * w.den,
                            e |-> 100 * w.e + de * w.den]}} : TRUE

\* parseFloat(x.toFixed(3)) of n/den, in thousandths
toFixed3(n, den) == Round(1000 * n, den)

\* travelRisk, healthInfra and envStab of getDynamicWeights as they stand
\* before its return statement.
unroundedWeights(riskTolerance, duration) ==
  LET rt == toLowerCase(riskTolerance)
      d == toLowerCase(duration)
      base == [t |-> 40, h |-> 35, e |-> 25, den |-> 100]
  IN CHOOSE out \in
       {IF d = "long" THEN Adjust(afterRisk, -5, 10, -5)
        ELSE Adjust(afterRisk, 0, -8, 8) :
          afterRisk \in {IF rt = "low" THEN Adjust(base, 10, -10, 5)
                         ELSE IF rt = "high" THEN Adjust(base, -10, -5, 10)
                         ELSE base}} : TRUE

getDynamicWeights(riskTolerance, duration) ==
  CHOOSE out \in
    {[travel_risk_score |-> toFixed3(w.t, w.den),
      health_infrastructure_score |-> toFixed3(w.h, w.den),
      environmental_stability_score |-> toFixed3(w.e, w.den)] :
       w \in {unroundedWeights(riskTolerance, duration)}} : TRUE

\* ---------------------------------------------------------- master scoring
\* The display names of the three dimensions in the reasoning text.
weightNames ==
  [travel_risk_score |-> "Travel Safety",
   health_infrastructure_score |-> "Health Infrastructure",
   environmental_stability_score |-> "Environmental Stability"]

\* Object.entries(weights).sort((a, b) => b[1] - a[1])[0]: the key of the
\* largest weight, the earlier key on a tie (the sort is stable).
topWeight(weights) ==
  IF /\ weights.travel_risk_score >= weights.health_infrastructure_score
     /\ weights.travel_risk_score >= weights.environmental_stability_score
    THEN "travel_risk_score"
  ELSE IF weights.health_infrastructure_score
            >= weights.environmental_stability_score
    THEN "health_infrastructure_score"
  ELSE "environmental_stability_score"

\* A travelReason whose caution names travel advisories when the advisory
\* component is the lowest of the four components, and environmental
\* conditions otherwise.
travelReasonWeaker(travelRisk) ==
  IF travelRisk.score >= 75
    THEN [about |-> "travel", tone |-> "strong", names |-> <<>>]
  ELSE IF travelRisk.score <= 40
    THEN [about |-> "travel", tone |-> "high",
          names |->
            IF /\ travelRisk.components.travel_advisory >= 40
               /\ travelRisk.components.air_quality >= 40
               /\ travelRisk.components.temperature_comfort >= 40
              THEN <<"multiple factors">>
              ELSE (IF travelRisk.components.travel_advisory < 40
                      THEN <<"elevated advisory risk">> ELSE <<>>)
                   \o (IF travelRisk.components.air_quality < 40
                         THEN <<"poor air quality">> ELSE <<>>)
                   \o (IF travelRisk.components.temperature_comfort < 40
                         THEN <<"uncomfortable temperatures">> ELSE <<>>)]
  ELSE [about |-> "travel", tone |-> "moderate",
        names |-> IF travelRisk.components.travel_advisory
                       <= Min(travelRisk.components.air_quality,
                              Min(travelRisk.components.temperature_comfort,
                                  travelRisk.components.weather_event))
                    THEN <<"travel advisories">>
                    ELSE <<"environmental conditions">>]

\* The sentences of generateReasoning, each as the values it is built from:
\* the dimension it is about, its tone, and what it names.  The Travel Risk
\* sentence: strong at 75 and above; at 40 and below the issues whose
\* component is under 40 ("multiple factors" when there is none); in between
\* a caution naming travel advisories when that component is under 50, else
\* environmental conditions.
travelReason(travelRisk) ==
  IF travelRisk.score >= 75
    THEN [about |-> "travel", tone |-> "strong", names |-> <<>>]
  ELSE IF travelRisk.score <= 40
    THEN [about |-> "travel", tone |-> "high",
          names |->
            IF /\ travelRisk.components.travel_advisory >= 40
               /\ travelRisk.components.air_quality >= 40
               /\ travelRisk.components.temperature_comfort >= 40
              THEN <<"multiple factors">>
              ELSE (IF travelRisk.components.travel_advisory < 40
                      THEN <<"elevated advisory risk">> ELSE <<>>)
                   \o (IF travelRisk.components.air_quality < 40
                         THEN <<"poor air quality">> ELSE <<>>)
                   \o (IF travelRisk.components.temperature_comfort < 40
                         THEN <<"uncomfortable temperatures">> ELSE <<>>)]
  ELSE [about |-> "travel", tone |-> "moderate",
        names |-> IF travelRisk.components.travel_advisory < 50
                    THEN <<"travel advisories">>
                    ELSE <<"environmental conditions">>]

\* The Health Infrastructure sentence: strong at 70 and above, concerns at
\* 40 and below, adequate in between.
healthReason(healthInfra) ==
  [about |-> "health",
   tone |-> IF healthInfra.score >= 70 THEN "strong"
            ELSE IF healthInfra.score <= 40 THEN "concerns" ELSE "adequate",
   names |-> <<>>]

\* An envReasons that names, at 40 and below, the weaker of the AQI and the
\* humidity component when one of them is the lowest of the four components,
\* and weather volatility otherwise.
envReasonsWeakest(envStab) ==
  IF envStab.score >= 70
    THEN <<[about |-> "environment", tone |-> "good", names |-> <<>>]>>
  ELSE IF envStab.score <= 40
    THEN <<[about |-> "environment", tone |-> "challenging",
            names |->
              IF Min(envStab.components.air_quality_stability,
                     envStab.components.humidity_comfort)
                   > Min(envStab.components.temperature_volatility,
                         envStab.components.wind_comfort)
                THEN <<"notable weather volatility">>
              ELSE IF envStab.components.air_quality_stability
                        <= envStab.components.humidity_comfort
                THEN <<"AQI">>
              ELSE <<"high humidity discomfort">>]>>
  ELSE <<>>

\* The Environmental Stability sentence, if any: good at 70 and above; at 40
\* and below a sentence naming the AQI when its component is under 40, else
\* humidity when its component is under 40, else weather volatility.
envReasons(envStab) ==
  IF envStab.score >= 70
    THEN <<[about |-> "environment", tone |-> "good", names |-> <<>>]>>
  ELSE IF envStab.score <= 40
    THEN <<[about |-> "environment", tone |-> "challenging",
            names |-> IF envStab.components.air_quality_stability < 40
                        THEN <<"AQI">>
                      ELSE IF envStab.components.humidity_comfort < 40
                        THEN <<"high humidity discomfort">>
                      ELSE <<"notable weather volatility">>]>>
  ELSE <<>>

\* The last sentence, "For your profile (<_riskTolerance>/<_duration>),
\* <name> carries the highest weight (<n>%).": the profile words are read
\* from the dataset object, the percentage is (weight * 100).toFixed(0).
weightReason(rawData, weights) ==
  [about |-> "weights", tone |-> "profile", names |-> <<>>,
   riskTolerance |-> rawData._riskTolerance,
   duration |-> rawData._duration,
   dimension |-> weightNames[topWeight(weights)],
   percent |-> Round(weights[topWeight(weights)], 10)]

\* A faulty generateReasoning that pushes the weight sentence first.
generateReasoningWeightFirst(country, travelRisk, healthInfra, envStab, rawData, weights) ==
  <<weightReason(rawData, weights), travelReason(travelRisk),
    healthReason(healthInfra)>> \o envReasons(envStab)

\* reasons, in the order of the pushes.
generateReasoning(country, travelRisk, healthInfra, envStab, rawData, weights) ==
  <<travelReason(travelRisk), healthReason(healthInfra)>>
    \o envReasons(envStab)
    \o <<weightReason(rawData, weights)>>

\* scoreCountry's write to its argument: countryData._riskTolerance and
\* countryData._duration are assigned on the object it was handed.
scoreCountryMark(countryData, riskTolerance, duration) ==
  [countryData EXCEPT !._riskTolerance = riskTolerance, !._duration = duration]

\* A faulty scoreCountry that builds the reasoning before it writes the
\* profile words onto the dataset, so that the sentence cites what the
\* previous scoring of the object left there.
scoreCountryReasonsFirst(countryData, riskTolerance, duration) ==
  CHOOSE out \in
    {[travel_risk_score |-> travelRisk,
      health_infrastructure_score |-> healthInfra,
      environmental_stability_score |-> envStab,
      composite_score |->
        Round(Max(0, Min(100 * 1000,
                travelRisk.score * weights.travel_risk_score
                  + healthInfra.score * weights.health_infrastructure_score
                  + envStab.score * weights.environmental_stability_score)), 1000),
      dynamic_weights |-> weights,
      reasoning |-> generateReasoning(countryData.country, travelRisk,
                      healthInfra, envStab, countryData, weights)] :
       travelRisk \in {computeTravelRiskScore(countryData)},
       healthInfra \in {computeHealthInfrastructureScore(countryData)},
       envStab \in {computeEnvironmentalStabilityScore(countryData)},
       weights \in {getDynamicWeights(riskTolerance, duration)}} : TRUE

\* A scoreCountry that weighs the composite with the weights as they are
\* before rounding, and reports the rounded ones.
scoreCountryUnrounded(countryData, riskTolerance, duration) ==
  LET travelRisk == computeTravelRiskScore(countryData)
      healthInfra == computeHealthInfrastructureScore(countryData)
      envStab == computeEnvironmentalStabilityScore(countryData)
      w == unroundedWeights(riskTolerance, duration)
      composite == travelRisk.score * w.t + healthInfra.score * w.h
                     + envStab.score * w.e
  IN [travel_risk_score |-> travelRisk,
      health_infrastructure_score |-> healthInfra,
      environmental_stability_score |-> envStab,
      composite_score |-> Round(Max(0, Min(100 * w.den, composite)), w.den),
      dynamic_weights |-> getDynamicWeights(riskTolerance, duration),
      reasoning |-> generateReasoning(countryData.country, travelRisk,
                      healthInfra, envStab,
                      scoreCountryMark(countryData, riskTolerance, duration),
                      getDynamicWeights(riskTolerance, duration))]

\* The three breakdowns, the composite, the weights and the reasoning of
\* scoreCountry.  The weights are the rounded triple getDynamicWeights
\* returns (thousandths); the reasoning is built after the profile words
\* have been written onto the dataset.
scoreCountry(countryData, riskTolerance, duration) ==
  CHOOSE out \in
    {[travel_risk_score |-> travelRisk,
      health_infrastructure_score |-> healthInfra,
      environmental_stability_score |-> envStab,
      composite_score |->
        Round(Max(0, Min(100 * 1000,
                travelRisk.score * weights.travel_risk_score
                  + healthInfra.score * weights.health_infrastructure_score
                  + envStab.score * weights.environmental_stability_score)), 1000),
      dynamic_weights |-> weights,
      reasoning |-> generateReasoning(countryData.country, travelRisk,
                      healthInfra, envStab,
                      scoreCountryMark(countryData, riskTolerance, duration),
                      weights)] :
       travelRisk \in {computeTravelRiskScore(countryData)},
       healthInfra \in {computeHealthInfrastructureScore(countryData)},
       envStab \in {computeEnvironmentalStabilityScore(countryData)},
       weights \in {getDynamicWeights(riskTolerance, duration)}} : TRUE

\* Array.prototype.sort with (a, b) => b.composite - a.composite: a stable
\* sort, here by insertion from the left.
RECURSIVE InsertSorted(_, _)
InsertSorted(sorted, entry) ==
  CHOOSE out \in
    {IF s = <<>> THEN <<e>>
     ELSE IF s[Len(s)].scores.composite_score >= e.scores.composite_score
       THEN Append(s, e)
       ELSE Append(InsertSorted(SubSeq(s, 1, Len(s) - 1), e), s[Len(s)]) :
       s \in {sorted}, e \in {entry}} : TRUE

RECURSIVE SortByComposite(_)
SortByComposite(entries) ==
  CHOOSE out \in
    {IF e = <<>> THEN <<>>
     ELSE InsertSorted(SortByComposite(SubSeq(e, 1, Len(e) - 1)), e[Len(e)]) :
       e \in {entries}} : TRUE

RANK_LABELS == <<"Best Match", "Strong Option", "Good Alternative">>

\* A faulty rankResults that numbers the entries in the order received.
rankResultsUnsorted(scoredCountries) ==
  [i \in 1..Len(scoredCountries) |->
     [country |-> scoredCountries[i].country,
      cache_hit |-> scoredCountries[i].cache_hit,
      scores |-> scoredCountries[i].scores,
      rank |-> i,
      rank_label |-> IF i <= Len(RANK_LABELS) THEN RANK_LABELS[i]
                    ELSE "#" \o ToString(i) \o " Option"]]

rankResults(scoredCountries) ==
  CHOOSE out \in
    {[i \in 1..Len(sorted) |->
        [country |-> sorted[i].country,
         cache_hit |-> sorted[i].cache_hit,
         scores |-> sorted[i].scores,
         rank |-> i,
         rank_label |-> IF i <= Len(RANK_LABELS) THEN RANK_LABELS[i]
                       ELSE "#" \o ToString(i) \o " Option"]] :
       sorted \in {SortByComposite(scoredCountries)}} : TRUE

\* -------------------------------------------------------------------- cache
\* A faulty get that already evicts at now = expiresAt.
getEvictsEarly(st, key, t) ==
  IF st[key] = NoEntry THEN [data |-> 0, hit |-> FALSE, store |-> st]
  ELSE IF t >= st[key].expiresAt
    THEN [data |-> 0, hit |-> FALSE, store |-> [st EXCEPT ![key] = NoEntry]]
    ELSE [data |-> st[key].data, hit |-> TRUE, store |-> st]

\* A faulty get that reports a miss whatever the store holds.
getNeverHits(st, key, t) ==
  [data |-> 0, hit |-> FALSE, store |-> st]

\* get(key): the entry's data and the hit flag, and the store after the
\* lazy eviction of an expired entry.
get(st, key, t) ==
  IF st[key] = NoEntry THEN [data |-> 0, hit |-> FALSE, store |-> st]
  ELSE IF t > st[key].expiresAt
    THEN [data |-> 0, hit |-> FALSE, store |-> [st EXCEPT ![key] = NoEntry]]
    ELSE [data |-> st[key].data, hit |-> TRUE, store |-> st]

set(st, key, data, t) ==
  [st EXCEPT ![key] = [data |-> data, expiresAt |-> t + TTL_MS]]

\* Faulty variants of getOrFetch.  getOrFetchUnregistered invokes the
\* producer on a miss but never records its promise in inFlight;
\* getOrFetchNoJoin skips the inFlight lookup, so every miss invokes.
getOrFetchUnregistered(cs, key, countryName, t) ==
  LET cached == get(cs.store, key, t)
      cs1 == [cs EXCEPT !.store = cached.store]
      p == Len(cs1.producers) + 1
  IN IF cached.hit
       THEN [cs |-> cs1,
             call |-> [countryName |-> countryName, state |-> "resolved",
                       promise |-> NoPromise, invoked |-> FALSE,
                       cacheHit |-> TRUE, result |-> cached.data, error |-> ""]]
       ELSE [cs |-> [cs1 EXCEPT !.producers =
                       Append(cs1.producers,
                              [key |-> key, countryName |-> countryName,
                               state |-> "pending"])],
             call |-> [countryName |-> countryName, state |-> "pending",
                       promise |-> p, invoked |-> TRUE,
                       cacheHit |-> FALSE, result |-> 0, error |-> ""]]

getOrFetchNoJoin(cs, key, countryName, t) ==
  LET cached == get(cs.store, key, t)
      cs1 == [cs EXCEPT !.store = cached.store]
      p == Len(cs1.producers) + 1
  IN IF cached.hit
       THEN [cs |-> cs1,
             call |-> [countryName |-> countryName, state |-> "resolved",
                       promise |-> NoPromise, invoked |-> FALSE,
                       cacheHit |-> TRUE, result |-> cached.data, error |-> ""]]
       ELSE [cs |-> [store |-> cs1.store,
                     inFlight |-> [cs1.inFlight EXCEPT ![key] = p],
                     producers |-> Append(cs1.producers,
                                     [key |-> key, countryName |-> countryName,
                                      state |-> "pending"])],
             call |-> [countryName |-> countryName, state |-> "pending",
                       promise |-> p, invoked |-> TRUE,
                       cacheHit |-> FALSE, result |-> 0, error |-> ""]]

\* A faulty getOrFetch with a sliding expiry: a hit rewrites the entry.
getOrFetchRefreshes(cs, key, countryName, t) ==
  LET cached == get(cs.store, key, t)
      cs1 == [cs EXCEPT !.store = cached.store]
  IN IF cached.hit
       THEN [cs |-> [cs1 EXCEPT !.store = set(cs1.store, key, cached.data, t)],
             call |-> [countryName |-> countryName, state |-> "resolved",
                       promise |-> NoPromise, invoked |-> FALSE,
                       cacheHit |-> TRUE, result |-> cached.data, error |-> ""]]
     ELSE IF cs1.inFlight[key] # NoPromise
       THEN [cs |-> cs1,
             call |-> [countryName |-> countryName, state |-> "pending",
                       promise |-> cs1.inFlight[key], invoked |-> FALSE,
                       cacheHit |-> FALSE, result |-> 0, error |-> ""]]
     ELSE LET p == Len(cs1.producers) + 1
          IN [cs |-> [store |-> cs1.store,
                      inFlight |-> [cs1.inFlight EXCEPT ![key] = p],
                      producers |-> Append(cs1.producers,
                                      [key |-> key, countryName |-> countryName,
                                       state |-> "pending"])],
              call |-> [countryName |-> countryName, state |-> "pending",
                        promise |-> p, invoked |-> TRUE,
                        cacheHit |-> FALSE, result |-> 0, error |-> ""]]

\* A faulty getOrFetch that reports a joined call as a cache hit.
getOrFetchJoinIsHit(cs, key, countryName, t) ==
  LET cached == get(cs.store, key, t)
      cs1 == [cs EXCEPT !.store = cached.store]
  IN IF cached.hit
       THEN [cs |-> cs1,
             call |-> [countryName |-> countryName, state |-> "resolved",
                       promise |-> NoPromise, invoked |-> FALSE,
                       cacheHit |-> TRUE, result |-> cached.data, error |-> ""]]
     ELSE IF cs1.inFlight[key] # NoPromise
       THEN [cs |-> cs1,
             call |-> [countryName |-> countryName, state |-> "pending",
                       promise |-> cs1.inFlight[key], invoked |-> FALSE,
                       cacheHit |-> TRUE, result |-> 0, error |-> ""]]
     ELSE LET p == Len(cs1.producers) + 1
          IN [cs |-> [store |-> cs1.store,
                      inFlight |-> [cs1.inFlight EXCEPT ![key] = p],
                      producers |-> Append(cs1.producers,
                                      [key |-> key, countryName |-> countryName,
                                       state |-> "pending"])],
              call |-> [countryName |-> countryName, state |-> "pending",
                        promise |-> p, invoked |-> TRUE,
                        cacheHit |-> FALSE, result |-> 0, error |-> ""]]

\* The synchronous part of getOrFetch(key, fetchFn), up to its first await,
\* on the cache state cs = [store, inFlight, producers].  The call returns
\* at once on a hit, joins the registered promise, or invokes the producer
\* and registers its promise.
getOrFetch(cs, key, countryName, t) ==
  LET cached == get(cs.store, key, t)
      cs1 == [cs EXCEPT !.store = cached.store]
  IN IF cached.hit
       THEN [cs |-> cs1,
             call |-> [countryName |-> countryName, state |-> "resolved",
                       promise |-> NoPromise, invoked |-> FALSE,
                       cacheHit |-> TRUE, result |-> cached.data, error |-> ""]]
     ELSE IF cs1.inFlight[key] # NoPromise
       THEN [cs |-> cs1,
             call |-> [countryName |-> countryName, state |-> "pending",
                       promise |-> cs1.inFlight[key], invoked |-> FALSE,
                       cacheHit |-> FALSE, result |-> 0, error |-> ""]]
     ELSE LET p == Len(cs1.producers) + 1
          IN [cs |-> [store |-> cs1.store,
                      inFlight |-> [cs1.inFlight EXCEPT ![key] = p],
                      producers |-> Append(cs1.producers,
                                      [key |-> key, countryName |-> countryName,
                                       state |-> "pending"])],
              call |-> [countryName |-> countryName, state |-> "pending",
                        promise |-> p, invoked |-> TRUE,
                        cacheHit |-> FALSE, result |-> 0, error |-> ""]]

\* A faulty continuation that wakes only the caller that invoked the
\* producer when the promise rejects.
getOrFetchSettleInvokerOnly(call, p, outcome, ref, err) ==
  IF call.state = "pending" /\ call.promise = p
    THEN IF outcome = "reject"
           THEN IF call.invoked
                  THEN [call EXCEPT !.state = "rejected", !.error = err]
                  ELSE call
           ELSE [call EXCEPT !.state = "resolved", !.result = ref]
    ELSE call

\* The continuation of a getOrFetch call whose promise p has settled: the
\* awaited value or error reaches the invoker and every joined caller.
getOrFetchSettle(call, p, outcome, ref, err) ==
  IF call.state = "pending" /\ call.promise = p
    THEN IF outcome = "reject"
           THEN [call EXCEPT !.state = "rejected", !.error = err]
           ELSE [call EXCEPT !.state = "resolved", !.result = ref]
    ELSE call

\* ----------------------------------------------------------------- provider
\* What the five upstream APIs can answer for one country: no profile at
\* all, a full record at the ideal values, or a profile with every metric
\* missing.  Units: temperatures, advisory score, wind speed, life
\* expectancy and expenditure in tenths; humidity in percent.
NoProfileReply ==
  [profile |-> NullObj, worldBank |-> NullObj, weather |-> NullObj,
   aqi |-> NullObj, advisory |-> NullObj]

IdealReply ==
  [profile |-> [population |-> 100000],
   worldBank |-> [lifeExpectancy |-> 900, healthcareExpenditure |-> 150],
   weather |-> [temp_celsius |-> 215, temp_min |-> 215, temp_max |-> 215,
                humidity_pct |-> 45, wind_speed_ms |-> 0, weather_id |-> 800],
   aqi |-> [aqi |-> 0],
   advisory |-> [score |-> 10]]

AbsentReply ==
  [profile |-> [population |-> Null],
   worldBank |-> NullObj, weather |-> NullObj,
   aqi |-> NullObj, advisory |-> NullObj]

\* The upstream answers for a country: its profile may be unavailable;
\* otherwise France is served the ideal record and Peru the empty one.
ProviderReplies(countryName) ==
  IF toLowerCase(countryName) = "france"
    THEN {NoProfileReply, IdealReply}
    ELSE {NoProfileReply, AbsentReply}

\* The error a producer can reject with.
ProviderErrors == {"timeout of 8000ms exceeded"}

\* fetchAllDataForCountry resolves in both cases: with a found=false record
\* when the profile lookup gave nothing, else with the merged dataset.
fetchAllDataForCountry(countryName, reply) ==
  IF reply.profile = NullObj
    THEN [found |-> FALSE, country |-> countryName,
          error |-> "Country " \o countryName \o " not found or REST Countries API unavailable.",
          profile |-> NullObj, worldBank |-> NullObj, weather |-> NullObj,
          aqi |-> NullObj, advisory |-> NullObj,
          _riskTolerance |-> "undefined", _duration |-> "undefined"]
    ELSE [found |-> TRUE, country |-> countryName, error |-> "",
          profile |-> reply.profile,
          worldBank |-> IF reply.worldBank = NullObj
                          THEN [lifeExpectancy |-> Null, healthcareExpenditure |-> Null]
                          ELSE reply.worldBank,
          weather |-> reply.weather, aqi |-> reply.aqi, advisory |-> reply.advisory,
          _riskTolerance |-> "undefined", _duration |-> "undefined"]

\* ------------------------------------------------------------ route handler
\* A faulty validateInput without the lower bound on the list length.
validateInputNoMinimum(body) ==
  (IF Len(body.countries) > MAX_COUNTRIES THEN {"countries: at most 10"}
   ELSE IF \E i \in 1..Len(body.countries) : trim(body.countries[i]) = ""
     THEN {"countries: non-empty strings"}
   ELSE {})
  \cup (IF toLowerCase(body.riskTolerance) \in VALID_RISK THEN {} ELSE {"riskTolerance"})
  \cup (IF toLowerCase(body.duration) \in VALID_DURATION THEN {} ELSE {"duration"})

validateInput(body) ==
  (IF Len(body.countries) < MIN_COUNTRIES THEN {"countries: at least 3"}
   ELSE IF Len(body.countries) > MAX_COUNTRIES THEN {"countries: at most 10"}
   ELSE IF \E i \in 1..Len(body.countries) : trim(body.countries[i]) = ""
     THEN {"countries: non-empty strings"}
   ELSE {})
  \cup (IF toLowerCase(body.riskTolerance) \in VALID_RISK THEN {} ELSE {"riskTolerance"})
  \cup (IF toLowerCase(body.duration) \in VALID_DURATION THEN {} ELSE {"duration"})

\* [...new Set(countries.map((c) => c.trim()))]: the first occurrence of
\* each trimmed string, compared exactly.
RECURSIVE uniqueCountries(_)
uniqueCountries(countries) ==
  IF countries = <<>> THEN <<>>
  ELSE LET front == uniqueCountries(SubSeq(countries, 1, Len(countries) - 1))
           c == trim(countries[Len(countries)])
       IN IF \E i \in 1..Len(front) : front[i] = c THEN front ELSE Append(front, c)

\* uniqueCountries.map(...): one getOrFetch per unique name, left to right,
\* all in the handler's first synchronous run.
RECURSIVE dataPromises(_, _, _)
dataPromises(unique, cs, t) ==
  IF unique = <<>> THEN [cs |-> cs, calls |-> <<>>]
  ELSE LET front == dataPromises(SubSeq(unique, 1, Len(unique) - 1), cs, t)
           countryName == unique[Len(unique)]
           step == getOrFetch(front.cs, cacheKey(countryName), countryName, t)
       IN [cs |-> step.cs, calls |-> Append(front.calls, step.call)]

\* The per-country closure's bookkeeping once its call has settled.
cacheHitMap(calls) ==
  [n \in {calls[i].countryName : i \in 1..Len(calls)} |->
     \E i \in 1..Len(calls) :
        calls[i].countryName = n /\ calls[i].state = "resolved" /\ calls[i].cacheHit]

cacheMissMap(calls) ==
  {calls[i].countryName : i \in {j \in 1..Len(calls) :
       calls[j].state = "resolved" /\ ~calls[j].cacheHit}}

\* allData[i]: the cached object the call resolved to (by reference), or the
\* request's own found=false record built in the catch block.
allData(calls, hp) ==
  [i \in 1..Len(calls) |->
     IF calls[i].state = "resolved"
       THEN [ref |-> calls[i].result, d |-> hp[calls[i].result]]
       ELSE [ref |-> 0,
             d |-> [found |-> FALSE, country |-> calls[i].countryName,
                    error |-> "Failed to retrieve data: " \o calls[i].error]]]

\* The weight_profile of a response that carries none.
NoWeights ==
  [travel_risk_score |-> 0, health_infrastructure_score |-> 0,
   environmental_stability_score |-> 0]

NoResponse ==
  [status |-> 0, errors |-> <<>>, validation |-> {}, countries |-> <<>>,
   countries_analyzed |-> 0, countries_failed |-> 0,
   hits |-> {}, misses |-> {}, weight_profile |-> NoWeights,
   ranked_results |-> <<>>, failed_countries |-> <<>>]

IsValid(e) == e.d.found
IsError(e) == ~e.d.found

failedList(errorData) ==
  [i \in 1..Len(errorData) |->
     [country |-> errorData[i].d.country, reason |-> errorData[i].d.error]]

\* validData.map(...): one entry per valid dataset, labelled with the
\* dataset's own country name, its cache_hit read from cacheHitMap under
\* that name (false when the map has no such key).
scoredCountries(validData, hitMap, rt, dur) ==
  [i \in 1..Len(validData) |->
     [country |-> validData[i].d.country,
      cache_hit |-> IF validData[i].d.country \in DOMAIN hitMap
                      THEN hitMap[validData[i].d.country] ELSE FALSE,
      scores |-> scoreCountry(validData[i].d, rt, dur)]]

\* A faulty handler without the validData.length === 0 return: it goes on
\* to score, rank and answer 200 with nothing valid.
RespondNoNotFound(rq, hp) ==
  LET all == allData(rq.calls, hp)
      validData == SelectSeq(all, IsValid)
      errorData == SelectSeq(all, IsError)
      hitMap == cacheHitMap(rq.calls)
      validRefs == {validData[i].ref : i \in 1..Len(validData)}
  IN [heap |-> [j \in 1..Len(hp) |->
                 IF j \in validRefs
                   THEN scoreCountryMark(hp[j], rq.rt, rq.dur) ELSE hp[j]],
     req |-> [rq EXCEPT !.pc = "done",
                !.response = [NoResponse EXCEPT !.status = 200,
                   !.countries = rq.uniqueCountries,
                   !.countries_analyzed = Len(validData),
                   !.countries_failed = Len(errorData),
                   !.hits = {n \in DOMAIN hitMap : hitMap[n]},
                   !.misses = {n \in DOMAIN hitMap : ~hitMap[n]},
                   !.weight_profile = getDynamicWeights(rq.rt, rq.dur),
                   !.ranked_results =
                      rankResults(scoredCountries(validData, hitMap,
                                                  rq.rt, rq.dur)),
                   !.failed_countries = failedList(errorData)]]]

\* The handler from the Promise.all continuation to the response: partition,
\* 404 when nothing is valid, else score (which writes the profile words
\* onto each dataset object), rank and answer.
Respond(rq, hp) ==
  CHOOSE out \in
    {IF validData = <<>>
       THEN [heap |-> hp,
             req |-> [rq EXCEPT !.pc = "done",
                        !.response = [NoResponse EXCEPT !.status = 404,
                                        !.errors = failedList(errorData)]]]
       ELSE [heap |-> [j \in 1..Len(hp) |->
                         IF j \in {validData[i].ref : i \in 1..Len(validData)}
                           THEN scoreCountryMark(hp[j], rq.rt, rq.dur) ELSE hp[j]],
             req |-> [rq EXCEPT !.pc = "done",
                        !.response = [NoResponse EXCEPT !.status = 200,
                           !.countries = rq.uniqueCountries,
                           !.countries_analyzed = Len(validData),
                           !.countries_failed = Len(errorData),
                           !.hits = {n \in DOMAIN hitMap : hitMap[n]},
                           !.misses = {n \in DOMAIN hitMap : ~hitMap[n]},
                           !.weight_profile = getDynamicWeights(rq.rt, rq.dur),
                           !.ranked_results =
                              rankResults(scoredCountries(validData, hitMap,
                                                          rq.rt, rq.dur)),
                           !.failed_countries = failedList(errorData)]]] :
       validData \in {SelectSeq(allData(rq.calls, hp), IsValid)},
       errorData \in {SelectSeq(allData(rq.calls, hp), IsError)},
       hitMap \in {cacheHitMap(rq.calls)}} : TRUE

\* A fail-fast join: the handler resumes as soon as one fetch has rejected.
AllSettledFailFast(rq) ==
  \/ \A i \in 1..Len(rq.calls) : rq.calls[i].state # "pending"
  \/ \E i \in 1..Len(rq.calls) : rq.calls[i].state = "rejected"

\* A racing join: the handler resumes as soon as one fetch has settled.
AllSettledAny(rq) ==
  \E i \in 1..Len(rq.calls) : rq.calls[i].state # "pending"

AllSettled(rq) ==
  \A i \in 1..Len(rq.calls) : rq.calls[i].state # "pending"

\* The requests whose last fetch has just settled resume in arrival order.
RECURSIVE Resume(_, _, _)
Resume(r, rqs, hp) ==
  IF r > MaxRequests THEN [req |-> rqs, heap |-> hp]
  ELSE IF rqs[r].pc = "waiting" /\ AllSettled(rqs[r])
    THEN CHOOSE res \in
           {Resume(r + 1, [rqs EXCEPT ![r] = out.req], out.heap) :
              out \in {Respond(rqs[r], hp)}} : TRUE
    ELSE Resume(r + 1, rqs, hp)

Deliver(rqs, p, outcome, ref, err) ==
  [r \in 1..MaxRequests |->
     [rqs[r] EXCEPT !.calls =
        [i \in 1..Len(rqs[r].calls) |->
           getOrFetchSettle(rqs[r].calls[i], p, outcome, ref, err)]]]

IdleRequest ==
  [pc |-> "idle", body |-> [countries |-> <<>>, riskTolerance |-> "", duration |-> ""],
   rt |-> "", dur |-> "", uniqueCountries |-> <<>>, calls |-> <<>>,
   response |-> NoResponse]

\* A handler that has answered is over: its locals are dropped at the next
\* turn of the event loop, and only the fact that the request was served
\* remains.
GoneRequest == [IdleRequest EXCEPT !.pc = "gone"]

Forget(rqs) ==
  [r \in 1..MaxRequests |-> IF rqs[r].pc = "done" THEN GoneRequest ELSE rqs[r]]

\* ------------------------------------------------------------------- inputs
CountryInputs ==
  {<<"France", "france", "Peru ">>,
   <<"Peru ", "France", "Peru ">>,
   <<"france", "france", "france">>}
ProfileInputs == {<<"LOW", "short">>, <<"high", "Long">>}
\* Bodies the validator turns down: too few and too many countries, an
\* empty and a blank entry, an unknown risk tolerance, an unknown duration.
InvalidBodies ==
  {[countries |-> <<"France", "Peru ">>, riskTolerance |-> "LOW", duration |-> "short"],
   [countries |-> [i \in 1..(MAX_COUNTRIES + 1) |-> "France"],
    riskTolerance |-> "high", duration |-> "Long"],
   [countries |-> <<"France", "", "Peru ">>, riskTolerance |-> "high", duration |-> "Long"],
   [countries |-> <<"France", " ", "Peru ">>, riskTolerance |-> "LOW", duration |-> "short"],
   [countries |-> <<"France", "france", "Peru ">>,
    riskTolerance |-> "extreme", duration |-> "short"],
   [countries |-> <<"France", "france", "Peru ">>,
    riskTolerance |-> "high", duration |-> "medium"]}
Bodies ==
  {[countries |-> c, riskTolerance |-> pr[1], duration |-> pr[2]] :
     c \in CountryInputs, pr \in ProfileInputs} \cup InvalidBodies

\* What the upstream APIs can report for each metric: nothing, a value inside
\* the scoring range, its ends, or a value outside of it.
Populations == {Null, 10, 100000, 67000000, 2000000000}
WorldBankReplies ==
  {NullObj,
   [lifeExpectancy |-> 900, healthcareExpenditure |-> 150],
   [lifeExpectancy |-> 712, healthcareExpenditure |-> Null],
   [lifeExpectancy |-> 300, healthcareExpenditure |-> 5]}
WeatherReplies ==
  {NullObj,
   [temp_celsius |-> 215, temp_min |-> 215, temp_max |-> 215,
    humidity_pct |-> 45, wind_speed_ms |-> 0, weather_id |-> 800],
   [temp_celsius |-> 300, temp_min |-> 280, temp_max |-> 330,
    humidity_pct |-> 70, wind_speed_ms |-> 55, weather_id |-> 500],
   [temp_celsius |-> -300, temp_min |-> -350, temp_max |-> -100,
    humidity_pct |-> 100, wind_speed_ms |-> 250, weather_id |-> 211],
   [temp_celsius |-> 20, temp_min |-> -100, temp_max |-> 150,
    humidity_pct |-> 70, wind_speed_ms |-> 250, weather_id |-> 600]}
AqiReplies == {NullObj, [aqi |-> 0], [aqi |-> 97], [aqi |-> 210], [aqi |-> 500]}
AdvisoryReplies == {NullObj, [score |-> 10], [score |-> 33], [score |-> 60]}

ScoringReplies ==
  {[profile |-> [population |-> pop], worldBank |-> wb, weather |-> w,
    aqi |-> a, advisory |-> ad] :
     pop \in Populations, wb \in WorldBankReplies, w \in WeatherReplies,
     a \in AqiReplies, ad \in AdvisoryReplies}

\* One call of a scoring function: its arguments, and its value once made.
NoCalc ==
  [op |-> "none", done |-> FALSE, countryData |-> NullObj,
   riskTolerance |-> "", duration |-> "", scores |-> NullObj,
   scoredCountries |-> <<>>, rankedResults |-> <<>>,
   value |-> Null, min |-> 0, max |-> 1, higherIsBetter |-> TRUE,
   defaultScore |-> 50, result |-> Null]

ScoreInputs ==
  {[NoCalc EXCEPT !.op = "scoreCountry",
      !.countryData = fetchAllDataForCountry("Peru", reply),
      !.riskTolerance = rt, !.duration = dur] :
     reply \in ScoringReplies, rt \in VALID_RISK, dur \in VALID_DURATION}

\* The lists handed to rankResults: one entry per valid country, as the
\* handler builds them from the datasets of differently named countries.
RankNames == <<"France", "Peru", "Chile", "Japan", "Kenya">>
RankReplies ==
  {IdealReply, AbsentReply,
   [profile |-> [population |-> 67000000], worldBank |-> NullObj,
    weather |-> NullObj, aqi |-> [aqi |-> 500], advisory |-> [score |-> 60]]}
RankLists == UNION {[1..n -> RankReplies] : n \in 1..MaxRanked}
RankInputs ==
  {[NoCalc EXCEPT !.op = "rankResults",
      !.riskTolerance = pr[1], !.duration = pr[2],
      !.scoredCountries =
         [i \in 1..Len(list) |->
            [country |-> RankNames[i], cache_hit |-> FALSE,
             scores |-> scoreCountry(fetchAllDataForCountry(RankNames[i], list[i]),
                                     pr[1], pr[2])]]] :
     list \in RankLists, pr \in {<<"low", "short">>, <<"high", "long">>}}

\* Direct calls of normalize: the ranges are those of the call sites (AQI,
\* advisory, temperature deviation, health expenditure, life expectancy,
\* spread and wind, humidity deviation, log-population), the values lie
\* below, on, inside and above them.  On each of these arguments the double
\* arithmetic of the function and the exact quotient round to the same integer.
NormalizeRanges ==
  {<<0, 300>>, <<10, 50>>, <<0, 400>>, <<10, 150>>, <<450, 900>>,
   <<0, 200>>, <<0, 55>>, <<500000, 930103>>}
NormalizeValues ==
  {Null, -5, 0, 1, 3, 10, 11, 30, 55, 150, 215, 300, 450, 675, 900, 1000,
   600000, 2000000}
NormalizeInputs ==
  {[NoCalc EXCEPT !.op = "normalize", !.value = v, !.min = rg[1],
      !.max = rg[2], !.higherIsBetter = hib, !.defaultScore = dflt] :
     v \in NormalizeValues, rg \in NormalizeRanges, hib \in BOOLEAN,
     dflt \in {50, 0}}

\* Condition codes for a direct call of weatherSeverityPenalty: none, zero,
\* and both sides of every band edge.
WeatherIds ==
  {Null, 0, 1, 199, 200, 211, 299, 300, 399, 400, 499, 500, 599, 600, 699,
   700, 799, 800, 801, 809, 810, 900}
WeatherSeverityInputs ==
  {[NoCalc EXCEPT !.op = "weatherSeverityPenalty", !.value = id] :
     id \in WeatherIds}

\* --------------------------------------------------------------- state machine
Init ==
  /\ now = 0
  /\ store = [k \in Keys |-> NoEntry]
  /\ inFlight = [k \in Keys |-> NoPromise]
  /\ producers = <<>>
  /\ heap = <<>>
  /\ req = [r \in 1..MaxRequests |-> IdleRequest]
  /\ calc = NoCalc

\* POST /api/analyze arrives.  An invalid body is answered 400 at once.
\* Otherwise deduplication and the fan-out run synchronously, and the calls
\* served from the cache settle in the same turn.
Analyze(r, body) ==
  /\ req[r].pc = "idle"
  /\ \A q \in 1..(r - 1) : req[q].pc # "idle"
  /\ IF validateInput(body) # {}
       THEN /\ req' = [Forget(req) EXCEPT ![r] =
                         [IdleRequest EXCEPT !.pc = "done", !.body = body,
                            !.response = [NoResponse EXCEPT !.status = 400,
                                            !.validation = validateInput(body)]]]
            /\ UNCHANGED <<store, inFlight, producers, heap>>
       ELSE \E fan \in {dataPromises(uniqueCountries(body.countries),
                            [store |-> store, inFlight |-> inFlight,
                             producers |-> producers], now)} :
            \E out \in {Resume(r,
                          [Forget(req) EXCEPT ![r] =
                             [pc |-> "waiting", body |-> body,
                              rt |-> toLowerCase(body.riskTolerance),
                              dur |-> toLowerCase(body.duration),
                              uniqueCountries |-> uniqueCountries(body.countries),
                              calls |-> fan.calls,
                              response |-> NoResponse]],
                          heap)} :
               /\ store' = fan.cs.store
               /\ inFlight' = fan.cs.inFlight
               /\ producers' = fan.cs.producers
               /\ req' = out.req
               /\ heap' = out.heap
  /\ UNCHANGED <<now, calc>>

\* A faulty .then callback that caches the data and leaves the registration.
ProducerResolveKeepsRegistration(p, reply) ==
  /\ producers[p].state = "pending"
  /\ LET key == producers[p].key
         data == fetchAllDataForCountry(producers[p].countryName, reply)
         ref == Len(heap) + 1
         out == Resume(1, Deliver(Forget(req), p, "resolve", ref, ""), Append(heap, data))
     IN /\ store' = set(store, key, ref, now)
        /\ producers' = [producers EXCEPT ![p].state = "resolved"]
        /\ req' = out.req
        /\ heap' = out.heap
  /\ UNCHANGED <<now, inFlight, calc>>

\* The producer of promise p resolves: the .then callback caches the data
\* and clears the registration, then every caller awaiting p resumes.
ProducerResolve(p, reply) ==
  /\ producers[p].state = "pending"
  /\ store' = set(store, producers[p].key, Len(heap) + 1, now)
  /\ inFlight' = [inFlight EXCEPT ![producers[p].key] = NoPromise]
  /\ producers' = [producers EXCEPT ![p].state = "resolved"]
  /\ \E out \in {Resume(1,
                   Deliver(Forget(req), p, "resolve", Len(heap) + 1, ""),
                   Append(heap, fetchAllDataForCountry(producers[p].countryName,
                                                       reply)))} :
        /\ req' = out.req
        /\ heap' = out.heap
  /\ UNCHANGED <<now, calc>>

\* A faulty .catch callback that rethrows without clearing the registration.
ProducerRejectKeepsRegistration(p, err) ==
  /\ producers[p].state = "pending"
  /\ LET out == Resume(1, Deliver(Forget(req), p, "reject", 0, err), heap)
     IN /\ producers' = [producers EXCEPT ![p].state = "rejected"]
        /\ req' = out.req
        /\ heap' = out.heap
  /\ UNCHANGED <<now, store, inFlight, calc>>

\* A faulty .catch callback that stores the failure as if it were data.
ProducerRejectCached(p, err) ==
  /\ producers[p].state = "pending"
  /\ LET key == producers[p].key
         ref == Len(heap) + 1
         failure == fetchAllDataForCountry(producers[p].countryName, NoProfileReply)
         out == Resume(1, Deliver(Forget(req), p, "reject", 0, err), Append(heap, failure))
     IN /\ store' = set(store, key, ref, now)
        /\ inFlight' = [inFlight EXCEPT ![key] = NoPromise]
        /\ producers' = [producers EXCEPT ![p].state = "rejected"]
        /\ req' = out.req
        /\ heap' = out.heap
  /\ UNCHANGED <<now, calc>>

\* A faulty producer promise that swallows the failure: the registration is
\* cleared and the callers awaiting p are never woken.
ProducerRejectSwallowed(p, err) ==
  /\ producers[p].state = "pending"
  /\ inFlight' = [inFlight EXCEPT ![producers[p].key] = NoPromise]
  /\ producers' = [producers EXCEPT ![p].state = "rejected"]
  /\ req' = Forget(req)
  /\ UNCHANGED <<now, store, heap, calc>>

\* The producer of promise p rejects: the .catch callback clears the
\* registration and rethrows to every caller awaiting p.
ProducerReject(p, err) ==
  /\ producers[p].state = "pending"
  /\ inFlight' = [inFlight EXCEPT ![producers[p].key] = NoPromise]
  /\ producers' = [producers EXCEPT ![p].state = "rejected"]
  /\ \E out \in {Resume(1, Deliver(Forget(req), p, "reject", 0, err), heap)} :
        /\ req' = out.req
        /\ heap' = out.heap
  /\ UNCHANGED <<now, store, calc>>

\* Date.now() moves on between macrotasks.
Tick(t) ==
  /\ t > now
  /\ now' = t
  /\ req' = Forget(req)
  /\ UNCHANGED <<store, inFlight, producers, heap, calc>>

Next ==
  \/ \E r \in 1..MaxRequests, body \in Bodies : Analyze(r, body)
  \/ \E p \in 1..Len(producers) :
        \E reply \in ProviderReplies(producers[p].countryName) : ProducerResolve(p, reply)
  \/ \E p \in 1..Len(producers), err \in ProviderErrors : ProducerReject(p, err)
  \/ \E t \in Instants : Tick(t)

Spec == Init /\ [][Next]_vars

\* Every provider call settles in the end: the adapters put a timeout on each
\* HTTP call, so a pending producer promise does not stay pending for ever.
SettleAny ==
  \E p \in 1..Len(producers) :
     \/ \E reply \in ProviderReplies(producers[p].countryName) :
           ProducerResolve(p, reply)
     \/ \E err \in ProviderErrors : ProducerReject(p, err)

SpecLive == Spec /\ WF_vars(SettleAny)

\* ------------------------------------------------ the scoring functions alone
\* The scoring service called directly: the initial state holds the
\* arguments of one call, the step makes it.
InitScoring ==
  /\ now = 0
  /\ store = [k \in Keys |-> NoEntry]
  /\ inFlight = [k \in Keys |-> NoPromise]
  /\ producers = <<>>
  /\ heap = <<>>
  /\ req = [r \in 1..MaxRequests |-> IdleRequest]
  /\ calc \in ScoreInputs \cup RankInputs \cup NormalizeInputs
             \cup WeatherSeverityInputs

ScoreCountry ==
  /\ calc.op = "scoreCountry"
  /\ ~calc.done
  /\ calc' = [calc EXCEPT !.done = TRUE,
                !.scores = scoreCountry(calc.countryData, calc.riskTolerance,
                                        calc.duration),
                !.countryData = scoreCountryMark(calc.countryData,
                                  calc.riskTolerance, calc.duration)]
  /\ UNCHANGED <<now, store, inFlight, producers, heap, req>>

RankResults ==
  /\ calc.op = "rankResults"
  /\ ~calc.done
  /\ calc' = [calc EXCEPT !.done = TRUE,
                !.rankedResults = rankResults(calc.scoredCountries)]
  /\ UNCHANGED <<now, store, inFlight, producers, heap, req>>

Normalize ==
  /\ calc.op = "normalize"
  /\ ~calc.done
  /\ calc' = [calc EXCEPT !.done = TRUE,
                !.result = normalize(calc.value, calc.min, calc.max,
                                     calc.higherIsBetter, calc.defaultScore)]
  /\ UNCHANGED <<now, store, inFlight, producers, heap, req>>

WeatherSeverityPenalty ==
  /\ calc.op = "weatherSeverityPenalty"
  /\ ~calc.done
  /\ calc' = [calc EXCEPT !.done = TRUE,
                !.result = weatherSeverityPenalty(calc.value)]
  /\ UNCHANGED <<now, store, inFlight, producers, heap, req>>

NextScoring ==
  ScoreCountry \/ RankResults \/ Normalize \/ WeatherSeverityPenalty

SpecScoring == InitScoring /\ [][NextScoring]_vars

\* ------------------------------------------------------------ observations
Requests == 1..MaxRequests

\* Every getOrFetch call made so far, as <<request, position>>.
Calls == UNION {{<<r, i>> : i \in 1..Len(req[r].calls)} : r \in Requests}

CallOf(c) == req[c[1]].calls[c[2]]
KeyOf(c) == cacheKey(CallOf(c).countryName)

PendingProducers(k) ==
  {p \in 1..Len(producers) : producers[p].key = k /\ producers[p].state = "pending"}

ProducersOf(k) == {p \in 1..Len(producers) : producers[p].key = k}

\* The latest producer invoked for key k, 0 when there was none.
LastProducer(k) ==
  IF ProducersOf(k) = {} THEN 0
  ELSE CHOOSE p \in ProducersOf(k) : \A q \in ProducersOf(k) : q <= p

\* Request r arrives in this step.
Arrives(r) == req[r].pc = "idle" /\ req'[r].pc # "idle"

\* ------------------------------------------------------------------ claims

\* C1: at every instant at most one producer invocation is pending for any
\* key, however the getOrFetch calls of one or of several requests interleave.
C1_AtMostOnePendingProducer ==
  \A k \in Keys : Cardinality(PendingProducers(k)) <= 1

\* Two calls on one key are waiting while a single producer for it is pending.
C1_Witness ==
  \E c1, c2 \in Calls :
     /\ c1 # c2
     /\ KeyOf(c1) = KeyOf(c2)
     /\ CallOf(c1).state = "pending" /\ CallOf(c2).state = "pending"
     /\ Cardinality(PendingProducers(KeyOf(c1))) = 1

\* C2: the calls that wait on one key at the same time share one promise, of
\* which exactly one of them invoked the producer, and the calls that
\* awaited one promise and resolved all hold the identical value.
C2_Coalescing ==
  /\ \A c1, c2 \in Calls :
       ( /\ KeyOf(c1) = KeyOf(c2)
         /\ CallOf(c1).state = "pending" /\ CallOf(c2).state = "pending" )
       => CallOf(c1).promise = CallOf(c2).promise
  /\ \A p \in 1..Len(producers) :
       LET invokers == {c \in Calls : CallOf(c).promise = p /\ CallOf(c).invoked}
       IN /\ Cardinality(invokers) <= 1
          /\ producers[p].state = "pending" => Cardinality(invokers) = 1
  /\ \A c1, c2 \in Calls :
       ( /\ CallOf(c1).promise # NoPromise
         /\ CallOf(c1).promise = CallOf(c2).promise
         /\ CallOf(c1).state = "resolved" )
       => /\ CallOf(c2).state = "resolved"
          /\ CallOf(c2).result = CallOf(c1).result
          /\ CallOf(c1).result \in 1..Len(heap)

\* Calls of two different requests joined one producer and resolved.
C2_Witness ==
  \E c1, c2 \in Calls :
     /\ c1[1] # c2[1]
     /\ CallOf(c1).promise # NoPromise
     /\ CallOf(c1).promise = CallOf(c2).promise
     /\ CallOf(c1).invoked /\ ~CallOf(c2).invoked
     /\ CallOf(c1).state = "resolved" /\ CallOf(c2).state = "resolved"

\* C3: once the latest producer of a key has failed, the key has neither a
\* store entry nor a registration, and a request that then asks for the key
\* invokes the producer again.
C3_State ==
  \A k \in Keys :
     (LastProducer(k) # 0 /\ producers[LastProducer(k)].state = "rejected")
     => store[k] = NoEntry /\ inFlight[k] = NoPromise

C3_FailureNotCached ==
  [][ /\ C3_State'
      /\ \A r \in Requests, k \in Keys :
           ( /\ Arrives(r)
             /\ LastProducer(k) # 0
             /\ producers[LastProducer(k)].state = "rejected"
             /\ \E i \in 1..Len(req'[r].calls) :
                   cacheKey(req'[r].calls[i].countryName) = k )
           => \E p \in (Len(producers) + 1)..Len(producers') :
                 producers'[p].key = k ]_vars

\* A key whose producer failed has been fetched again by a later producer.
C3_Witness ==
  \E k \in Keys, p \in 1..Len(producers) :
     /\ producers[p].key = k
     /\ producers[p].state = "rejected"
     /\ LastProducer(k) > p

\* C4: a dataset that reports found = false is never stored in the cache.
C4_FailedResponseNotCached ==
  \A k \in Keys : store[k] # NoEntry => heap[store[k].data].found

\* C5: an entry written at t0 expires at t0 + 60 minutes; a request that
\* reads the key at now <= expiresAt is served that value as a hit, invokes
\* no producer and leaves the entry alone; a read at now > expiresAt removes
\* the entry and is a miss.
C5_TTL ==
  [][ /\ \A p \in 1..Len(producers) :
           (producers[p].state = "pending" /\ producers'[p].state = "resolved")
           => /\ store'[producers[p].key] # NoEntry
              /\ store'[producers[p].key].expiresAt = now + TTL_MS
      /\ \A r \in Requests :
           Arrives(r) =>
             \A i \in 1..Len(req'[r].calls) :
                LET call == req'[r].calls[i]
                    k == cacheKey(call.countryName)
                IN IF store[k] # NoEntry /\ now <= store[k].expiresAt
                     THEN /\ call.cacheHit /\ call.state = "resolved"
                          /\ call.result = store[k].data
                          /\ ~call.invoked /\ call.promise = NoPromise
                          /\ store'[k] = store[k]
                          /\ \A q \in 1..Len(producers') : producers'[q].key = k => q <= Len(producers)
                     ELSE /\ ~call.cacheHit
                          /\ store'[k] = NoEntry ]_vars

\* At 61 minutes a key cached at start-up has been evicted and fetched anew.
C5_Witness ==
  /\ now = 61 * 60 * 1000
  /\ \E k \in Keys, p \in 1..Len(producers) :
        /\ producers[p].key = k
        /\ producers[p].state = "resolved"
        /\ LastProducer(k) > p
        /\ store[k] = NoEntry

\* C6: the callers of one fetch attempt all observe the one outcome of its
\* producer: after a failure each of them, invoker or joined, holds the same
\* error and no value; after a success each holds the same value.
C6_SameOutcome ==
  \A c \in Calls :
     LET call == CallOf(c)
         p == call.promise
     IN p # NoPromise =>
          /\ producers[p].state = "pending" => call.state = "pending"
          /\ producers[p].state = "rejected" =>
               /\ call.state = "rejected" /\ call.result = 0
               /\ call.error \in ProviderErrors
               /\ \A d \in Calls :
                    CallOf(d).promise = p => CallOf(d).error = call.error
          /\ producers[p].state = "resolved" =>
               /\ call.state = "resolved" /\ call.error = ""
               /\ \A d \in Calls :
                    CallOf(d).promise = p => CallOf(d).result = call.result

\* The invoker and a joined caller of one producer were both rejected.
C6_Witness ==
  \E c1, c2 \in Calls :
     /\ CallOf(c1).promise # NoPromise
     /\ CallOf(c1).promise = CallOf(c2).promise
     /\ CallOf(c1).invoked /\ ~CallOf(c2).invoked
     /\ CallOf(c1).state = "rejected" /\ CallOf(c2).state = "rejected"

\* C7: a key is registered in inFlight exactly while a producer for it is
\* pending, and the registration is that producer's promise; with no
\* producer pending the map is empty.
C7_RegistrationWhilePending ==
  \A k \in Keys :
     IF PendingProducers(k) = {} THEN inFlight[k] = NoPromise
     ELSE PendingProducers(k) = {inFlight[k]}

\* One producer has succeeded, one has failed, a third is registered.
C7_Witness ==
  /\ \E p \in 1..Len(producers) : producers[p].state = "resolved"
  /\ \E p \in 1..Len(producers) : producers[p].state = "rejected"
  /\ \E k \in Keys : inFlight[k] # NoPromise
  /\ \E k \in Keys : inFlight[k] = NoPromise /\ ProducersOf(k) # {}

\* C8: while an entry stays in the store, the entry and the dataset object
\* it holds do not change.
C8_CachedValueImmutable ==
  [][ \A k \in Keys :
        (store[k] # NoEntry /\ store'[k] # NoEntry)
        => /\ store'[k] = store[k]
           /\ heap'[store[k].data] = heap[store[k].data] ]_vars

\* C9: the unique countries of a request are pairwise different up to letter
\* case, so each cache key is fetched by one call of the request and named
\* by at most one result.
C9_CaseInsensitiveDedup ==
  \A r \in Requests :
     /\ \A i, j \in 1..Len(req[r].uniqueCountries) :
          toLowerCase(req[r].uniqueCountries[i]) = toLowerCase(req[r].uniqueCountries[j])
          => i = j
     /\ \A i, j \in 1..Len(req[r].calls) :
          cacheKey(req[r].calls[i].countryName) = cacheKey(req[r].calls[j].countryName)
          => i = j
     /\ Len(req[r].response.ranked_results) + Len(req[r].response.failed_countries)
          <= Cardinality({cacheKey(req[r].body.countries[i]) :
                            i \in 1..Len(req[r].body.countries)})

\* C10: a rejected fetch neither ends its request early nor is lost: the
\* request waits for every sibling, then lists the failed country by its own
\* name with the error text, and answers with one ranked result for every
\* fetch that brought a found dataset.
C10_FailureIsolation ==
  \A r \in Requests :
     LET rq == req[r]
         rejected == {i \in 1..Len(rq.calls) : rq.calls[i].state = "rejected"}
         found == {i \in 1..Len(rq.calls) :
                     rq.calls[i].state = "resolved" /\ heap[rq.calls[i].result].found}
         failed == IF rq.response.status = 200
                     THEN rq.response.failed_countries ELSE rq.response.errors
     IN /\ rq.pc = "waiting" <=> \E i \in 1..Len(rq.calls) : rq.calls[i].state = "pending"
        /\ (rq.pc = "done" /\ rq.response.status # 400) =>
             /\ \A i \in rejected :
                  \E j \in 1..Len(failed) :
                     failed[j] = [country |-> rq.calls[i].countryName,
                                  reason |-> "Failed to retrieve data: " \o rq.calls[i].error]
             /\ rq.response.status = (IF found = {} THEN 404 ELSE 200)
             /\ Len(rq.response.ranked_results) = Cardinality(found)
             /\ \A i \in found :
                  \E j \in 1..Len(rq.response.ranked_results) :
                     rq.response.ranked_results[j].country = heap[rq.calls[i].result].country

\* A request answered 200 with a ranked result although one of its fetches
\* was rejected.
C10_Witness ==
  \E r \in Requests :
     /\ req[r].pc = "done"
     /\ req[r].response.status = 200
     /\ \E i \in 1..Len(req[r].calls) : req[r].calls[i].state = "rejected"
     /\ Len(req[r].response.ranked_results) >= 1

\* C11: a request none of whose countries brought a found dataset ends with
\* the aggregate 404: its errors list has one entry per country fetched, in
\* order, naming the country with the reason of its failure, and nothing of
\* scoring, weight resolution or ranking shows: no ranked result, no weight
\* profile, none of its dataset objects written to.
C11_NotFoundAggregate ==
  \A r \in Requests :
     LET rq == req[r]
         found == {i \in 1..Len(rq.calls) :
                     rq.calls[i].state = "resolved" /\ heap[rq.calls[i].result].found}
     IN (rq.pc = "done" /\ rq.response.status # 400 /\ found = {}) =>
          /\ rq.response.status = 404
          /\ Len(rq.response.errors) = Len(rq.calls)
          /\ \A i \in 1..Len(rq.calls) :
               /\ cacheKey(rq.response.errors[i].country) = cacheKey(rq.calls[i].countryName)
               /\ rq.response.errors[i].reason =
                    (IF rq.calls[i].state = "resolved"
                       THEN heap[rq.calls[i].result].error
                       ELSE "Failed to retrieve data: " \o rq.calls[i].error)
               /\ rq.calls[i].state = "resolved" =>
                    /\ heap[rq.calls[i].result]._riskTolerance = "undefined"
                    /\ heap[rq.calls[i].result]._duration = "undefined"
          /\ rq.response.ranked_results = <<>>
          /\ rq.response.weight_profile = NoWeights
          /\ rq.response.countries_analyzed = 0

\* A request answered 404 whose list holds both a country the provider did
\* not find and a country whose fetch was rejected.
C11_Witness ==
  \E r \in Requests :
     /\ req[r].pc = "done"
     /\ req[r].response.status = 404
     /\ \E i, j \in 1..Len(req[r].calls) :
          /\ req[r].calls[i].state = "rejected"
          /\ req[r].calls[j].state = "resolved"
          /\ ~heap[req[r].calls[j].result].found

\* C12: the join is full.  A request has an answer only when every one of
\* its fetches has settled, and a step writes the profile words of scoring
\* onto a dataset object only for a request that is answered 200 in that
\* step with all its fetches settled and that dataset among their values.
C12_FullJoin ==
  [][/\ \A r \in Requests :
          req'[r].response # NoResponse /\ req'[r].response.status # 400
            => \A i \in 1..Len(req'[r].calls) : req'[r].calls[i].state # "pending"
     /\ \A j \in 1..Len(heap') :
          (IF j <= Len(heap) THEN heap'[j] # heap[j]
           ELSE heap'[j]._riskTolerance # "undefined")
            => \E r \in Requests :
                  /\ req'[r].pc = "done"
                  /\ req'[r].response.status = 200
                  /\ \A i \in 1..Len(req'[r].calls) : req'[r].calls[i].state # "pending"
                  /\ \E i \in 1..Len(req'[r].calls) :
                       /\ req'[r].calls[i].state = "resolved"
                       /\ req'[r].calls[i].result = j
                  /\ heap'[j]._riskTolerance = req'[r].rt
                  /\ heap'[j]._duration = req'[r].dur]_vars

\* A request answered 200 after waiting for two different producers, one of
\* which settled in an earlier step than the answer.
C12_Witness ==
  \E r \in Requests :
     /\ req[r].pc = "done"
     /\ req[r].response.status = 200
     /\ \E i, j \in 1..Len(req[r].calls) :
          /\ req[r].calls[i].promise # NoPromise
          /\ req[r].calls[j].promise # NoPromise
          /\ req[r].calls[i].promise # req[r].calls[j].promise

\* C13: only a country that is not in the cache triggers the provider.  A
\* producer is invoked only in the step in which a request arrives, only for
\* a key that at that instant has no unexpired entry and no pending
\* producer, and at most once per key in that request; a call whose key has
\* an unexpired entry is served from it and invokes nothing.
C13_OnlyMissesInvoke ==
  [][LET new == (Len(producers) + 1)..Len(producers')
     IN /\ new # {} => \E r \in Requests : Arrives(r)
        /\ \A p \in new :
             LET k == producers'[p].key
             IN /\ store[k] = NoEntry \/ now > store[k].expiresAt
                /\ inFlight[k] = NoPromise
                /\ \A q \in new : producers'[q].key = k => q = p
        /\ \A r \in Requests :
             Arrives(r) =>
               \A i \in 1..Len(req'[r].calls) :
                  LET call == req'[r].calls[i]
                      k == cacheKey(call.countryName)
                  IN (store[k] # NoEntry /\ now <= store[k].expiresAt)
                       => /\ ~call.invoked
                          /\ call.cacheHit
                          /\ call.result = store[k].data
                          /\ \A p \in new : producers'[p].key # k]_vars

\* A request that arrived to find one of its countries cached and another
\* not: the first call is a hit, the second invoked the provider.
C13_Witness ==
  \E r \in Requests :
     /\ req[r].pc = "waiting"
     /\ \E i, j \in 1..Len(req[r].calls) :
          /\ req[r].calls[i].cacheHit
          /\ req[r].calls[j].invoked
          /\ req[r].calls[j].state = "pending"

\* C14: the hit flag of a getOrFetch call is true exactly when the call found
\* an unexpired entry under its key at lookup; the call that invokes the
\* provider and every call that joins a pending one carry false, whatever the
\* outcome.  The 200 answer lists a country under hits exactly when its call
\* was a hit, and under misses otherwise.
C14_HitFlag ==
  [][\A r \in Requests :
        /\ Arrives(r) =>
             \A i \in 1..Len(req'[r].calls) :
                LET call == req'[r].calls[i]
                    k == cacheKey(call.countryName)
                IN /\ call.cacheHit <=> (store[k] # NoEntry /\ now <= store[k].expiresAt)
                   /\ call.cacheHit <=> call.promise = NoPromise
                   /\ call.invoked => ~call.cacheHit
        /\ req[r].pc = "waiting" =>
             \A i \in 1..Len(req[r].calls) :
                i <= Len(req'[r].calls)
                  => req'[r].calls[i].cacheHit = req[r].calls[i].cacheHit
        /\ (req'[r].pc = "done" /\ req'[r].response.status = 200) =>
             /\ req'[r].response.hits \cap req'[r].response.misses = {}
             /\ \A i \in 1..Len(req'[r].calls) :
                  LET call == req'[r].calls[i]
                  IN /\ call.countryName \in req'[r].response.hits <=> call.cacheHit
                     /\ call.countryName \in req'[r].response.misses <=> ~call.cacheHit]_vars

\* A 200 answer that lists a country served from the store under hits and a
\* country whose call joined a pending producer under misses.
C14_Witness ==
  \E r \in Requests :
     /\ req[r].pc = "done"
     /\ req[r].response.status = 200
     /\ \E i, j \in 1..Len(req[r].calls) :
          /\ req[r].calls[i].cacheHit
          /\ req[r].calls[i].countryName \in req[r].response.hits
          /\ req[r].calls[j].promise # NoPromise
          /\ ~req[r].calls[j].invoked
          /\ req[r].calls[j].countryName \in req[r].response.misses

\* C15: scoring a dataset whose raw metrics are all absent gives Travel Risk
\* 50, Health Infrastructure 50, Environmental Stability 50 and a composite
\* of 50, whatever the profile.
C15_AllAbsentIsNeutral ==
  (/\ calc.op = "scoreCountry"
   /\ calc.done
   /\ Opt(calc.countryData.profile, "population") = Null
   /\ calc.countryData.worldBank.lifeExpectancy = Null
   /\ calc.countryData.worldBank.healthcareExpenditure = Null
   /\ calc.countryData.weather = NullObj
   /\ Opt(calc.countryData.aqi, "aqi") = Null
   /\ Opt(calc.countryData.advisory, "score") = Null)
    => /\ calc.scores.travel_risk_score.score = 50
       /\ calc.scores.health_infrastructure_score.score = 50
       /\ calc.scores.environmental_stability_score.score = 50
       /\ calc.scores.composite_score = 50

\* C16: for each of the six profiles the weights scoreCountry reports are
\* non-negative and add up to 1.0 within one thousandth.
C16_WeightsSumToOne ==
  (calc.op = "scoreCountry" /\ calc.done) =>
    LET w == calc.scores.dynamic_weights
        sum == w.travel_risk_score + w.health_infrastructure_score
                 + w.environmental_stability_score
    IN /\ w = getDynamicWeights(calc.riskTolerance, calc.duration)
       /\ w.travel_risk_score >= 0
       /\ w.health_infrastructure_score >= 0
       /\ w.environmental_stability_score >= 0
       /\ sum >= 1000 - 1
       /\ sum <= 1000 + 1

\* A call scored under high + long, whose weights went through both
\* renormalisations and are not round hundredths.
C16_Witness ==
  /\ calc.op = "scoreCountry"
  /\ calc.done
  /\ calc.riskTolerance = "high"
  /\ calc.duration = "long"
  /\ calc.scores.dynamic_weights.travel_risk_score = 266
  /\ calc.scores.dynamic_weights.health_infrastructure_score = 416
  /\ calc.scores.dynamic_weights.environmental_stability_score = 318

\* C17: each resolved weight, as a percentage, is within one percentage
\* point of the README's table, and under low + long Health Infrastructure
\* is the highest of the three.
C17_WeightsMatchReadme ==
  (calc.op = "scoreCountry" /\ calc.done) =>
    LET w == calc.scores.dynamic_weights
        doc == DynamicWeightProfiles(calc.riskTolerance, calc.duration)
    IN /\ Abs(w.travel_risk_score - 10 * doc.travel_risk_score) <= 10
       /\ Abs(w.health_infrastructure_score - 10 * doc.health_infrastructure_score) <= 10
       /\ Abs(w.environmental_stability_score - 10 * doc.environmental_stability_score) <= 10
       /\ (calc.riskTolerance = "low" /\ calc.duration = "long") =>
            /\ w.health_infrastructure_score > w.travel_risk_score
            /\ w.health_infrastructure_score > w.environmental_stability_score

\* C18: rankResults returns a permutation of the entries it was given,
\* ordered by composite score from high to low, entries of equal composite
\* in the order received, and the entry at position i carries rank i.
C18_RankingOrder ==
  (calc.op = "rankResults" /\ calc.done) =>
    LET given == calc.scoredCountries
        ranked == calc.rankedResults
        \* the position an entry of the result had in the list received
        origin(j) == CHOOSE i \in 1..Len(given) : given[i].country = ranked[j].country
    IN /\ Len(ranked) = Len(given)
       /\ \A i \in 1..Len(given) :
            \E j \in 1..Len(ranked) :
               /\ ranked[j].country = given[i].country
               /\ ranked[j].scores = given[i].scores
               /\ ranked[j].cache_hit = given[i].cache_hit
       /\ \A j \in 1..Len(ranked) : ranked[j].rank = j
       /\ \A j, k \in 1..Len(ranked) :
            j < k =>
              /\ ranked[j].scores.composite_score >= ranked[k].scores.composite_score
              /\ ranked[j].scores.composite_score = ranked[k].scores.composite_score
                   => origin(j) < origin(k)

\* A ranked list of three whose first entry received had the lower composite
\* of two and tied with the third: the ranking moved the second to the top
\* and kept the tied pair in the order received.
C18_Witness ==
  /\ calc.op = "rankResults"
  /\ calc.done
  /\ Len(calc.scoredCountries) = 3
  /\ calc.scoredCountries[1].scores.composite_score
       < calc.scoredCountries[2].scores.composite_score
  /\ calc.scoredCountries[1].scores.composite_score
       = calc.scoredCountries[3].scores.composite_score
  /\ calc.rankedResults[1].country = calc.scoredCountries[2].country
  /\ calc.rankedResults[2].country = calc.scoredCountries[1].country
  /\ calc.rankedResults[3].country = calc.scoredCountries[3].country

\* C19 as stated: the composite is the rounded, clamped sum of the three
\* dimension scores weighted by the unrounded weights; the rounding to three
\* decimals touches only the weights reported.
C19_CompositeFromUnrounded ==
  (calc.op = "scoreCountry" /\ calc.done) =>
    LET sc == calc.scores
        w == unroundedWeights(calc.riskTolerance, calc.duration)
        sum == sc.travel_risk_score.score * w.t
                 + sc.health_infrastructure_score.score * w.h
                 + sc.environmental_stability_score.score * w.e
    IN sc.composite_score = Round(Max(0, Min(100 * w.den, sum)), w.den)

\* C19: the composite is the rounded, clamped sum of the three dimension
\* scores weighted by the weights already rounded to three decimals, the
\* very triple scoreCountry reports as dynamic_weights.
C19_CompositeFromReported ==
  (calc.op = "scoreCountry" /\ calc.done) =>
    LET sc == calc.scores
        w == sc.dynamic_weights
        sum1000 == sc.travel_risk_score.score * w.travel_risk_score
                     + sc.health_infrastructure_score.score * w.health_infrastructure_score
                     + sc.environmental_stability_score.score * w.environmental_stability_score
    IN /\ w = getDynamicWeights(calc.riskTolerance, calc.duration)
       /\ sc.composite_score = Round(Max(0, Min(100 * 1000, sum1000)), 1000)

\* A scored call whose composite under the unrounded weights would have
\* been another integer.
C19_Witness ==
  /\ calc.op = "scoreCountry"
  /\ calc.done
  /\ LET sc == calc.scores
         w == unroundedWeights(calc.riskTolerance, calc.duration)
         sum == sc.travel_risk_score.score * w.t
                  + sc.health_infrastructure_score.score * w.h
                  + sc.environmental_stability_score.score * w.e
     IN sc.composite_score # Round(Max(0, Min(100 * w.den, sum)), w.den)

\* C20: whatever the dataset (each metric present, absent or out of range)
\* and the profile, the three dimension scores, every sub-score of their
\* breakdowns and the composite are integers from 0 to 100.
C20_ScoresInRange ==
  (calc.op = "scoreCountry" /\ calc.done) =>
    LET sc == calc.scores
        dims == {sc.travel_risk_score, sc.health_infrastructure_score,
                 sc.environmental_stability_score}
    IN /\ sc.composite_score \in 0..100
       /\ \A dim \in dims :
            /\ dim.score \in 0..100
            /\ \A c \in DOMAIN dim.components : dim.components[c] \in 0..100

\* A scored dataset whose air quality index, advisory score and wind speed
\* lie above their ranges and whose temperature lies far below the ideal:
\* the sub-scores sit at the floor.
C20_Witness ==
  /\ calc.op = "scoreCountry"
  /\ calc.done
  /\ calc.countryData.aqi = [aqi |-> 500]
  /\ calc.countryData.advisory = [score |-> 60]
  /\ Opt(calc.countryData.weather, "wind_speed_ms") = 250
  /\ calc.countryData.profile.population = 10
  /\ calc.scores.travel_risk_score.components.air_quality = 0
  /\ calc.scores.travel_risk_score.components.travel_advisory = 0
  /\ calc.scores.environmental_stability_score.components.wind_comfort = 0
  /\ calc.scores.health_infrastructure_score.components.population_pressure = 100

\* C21: normalize with higherIsBetter = true maps every present value to an
\* integer from 0 to 100 and never decreases when the value grows; a missing
\* value returns defaultScore unchanged, whatever the direction.
C21_NormalizeMonotone ==
  (calc.op = "normalize" /\ calc.done) =>
    IF calc.value = Null THEN calc.result = calc.defaultScore
    ELSE calc.higherIsBetter =>
           /\ calc.result \in 0..100
           /\ \A v2 \in NormalizeValues \ {Null} :
                v2 >= calc.value =>
                  normalize(v2, calc.min, calc.max, TRUE, calc.defaultScore)
                    >= calc.result

C21_Witness ==
  /\ calc.op = "normalize" /\ calc.done /\ calc.higherIsBetter
  /\ calc.value = 150 /\ calc.min = 0 /\ calc.max = 300
  /\ calc.result = 50
  /\ normalize(215, calc.min, calc.max, TRUE, calc.defaultScore) = 72

\* C22: for a present value the higher-is-better and the lower-is-better
\* results over the same range add up to 100, give or take 1.
C22_Complementary ==
  (calc.op = "normalize" /\ calc.done /\ calc.value # Null) =>
    calc.result + normalize(calc.value, calc.min, calc.max,
                            ~calc.higherIsBetter, calc.defaultScore)
      \in 99..101

C22_Witness ==
  /\ calc.op = "normalize" /\ calc.done /\ calc.value = 1
  /\ calc.min = 0 /\ calc.max = 200 /\ ~calc.higherIsBetter
  /\ calc.result = 100
  /\ normalize(1, 0, 200, TRUE, calc.defaultScore) = 1

\* C23: the dataset with temperature 21.5, AQI 0, advisory 1.0, condition
\* code 800, life expectancy 90, health expenditure 15 % and population 1e5
\* scores Travel Risk 100 and Health Infrastructure 100: the raw 0 and the
\* values on a range bound are present values.
C23_IdealScoresFull ==
  (/\ calc.op = "scoreCountry" /\ calc.done
   /\ calc.countryData.weather # NullObj
   /\ calc.countryData.weather.temp_celsius = 215
   /\ calc.countryData.weather.weather_id = 800
   /\ Opt(calc.countryData.aqi, "aqi") = 0
   /\ Opt(calc.countryData.advisory, "score") = 10
   /\ calc.countryData.worldBank.lifeExpectancy = 900
   /\ calc.countryData.worldBank.healthcareExpenditure = 150
   /\ Opt(calc.countryData.profile, "population") = 100000)
  => /\ calc.scores.travel_risk_score.score = 100
     /\ calc.scores.health_infrastructure_score.score = 100

C23_Witness ==
  /\ calc.op = "scoreCountry" /\ calc.done
  /\ calc.countryData.weather # NullObj
  /\ calc.countryData.weather.temp_celsius = 215
  /\ calc.countryData.weather.weather_id = 800
  /\ Opt(calc.countryData.aqi, "aqi") = 0
  /\ Opt(calc.countryData.advisory, "score") = 10
  /\ calc.countryData.worldBank.lifeExpectancy = 900
  /\ calc.countryData.worldBank.healthcareExpenditure = 150
  /\ Opt(calc.countryData.profile, "population") = 100000
  /\ calc.scores.travel_risk_score.components.air_quality = 100
  /\ calc.scores.travel_risk_score.score = 100
  /\ calc.scores.health_infrastructure_score.score = 100

\* C24: in a 200 response the cache_hit flag of every ranked result equals
\* the cacheHit that getOrFetch returned to this request for that country's
\* dataset, and that value is true exactly when the requested name is listed
\* in meta.cache.hits.
C24_CacheHitFlag ==
  \A r \in Requests :
    (req[r].pc = "done" /\ req[r].response.status = 200) =>
      \A i \in 1..Len(req[r].calls) :
        LET call == req[r].calls[i]
        IN /\ call.cacheHit <=> call.countryName \in req[r].response.hits
           /\ (call.state = "resolved" /\ heap[call.result].found) =>
                \A j \in 1..Len(req[r].response.ranked_results) :
                  req[r].response.ranked_results[j].country
                      = heap[call.result].country
                    => req[r].response.ranked_results[j].cache_hit
                         = call.cacheHit

\* C25: a store entry appears only where there was none, in the step in
\* which a producer of its key resolves; it disappears only in the lookup of
\* an arriving request made after its expiry (now > expiresAt); an entry is
\* never replaced by another.
C25_EntryLifeCycle ==
  [][\A k \in Keys :
       store'[k] # store[k] =>
         \/ /\ store[k] = NoEntry
            /\ \E p \in 1..Len(producers) :
                 /\ producers[p].key = k
                 /\ producers[p].state = "pending"
                 /\ producers'[p].state = "resolved"
         \/ /\ store[k] # NoEntry
            /\ store'[k] = NoEntry
            /\ now > store[k].expiresAt
            /\ \E r \in Requests : Arrives(r)]_vars

\* An entry was created by the first producer of France, then evicted by a
\* read after its expiry, which invoked the second producer.
C25_Witness ==
  /\ now > TTL_MS
  /\ store["country:france"] = NoEntry
  /\ Cardinality(ProducersOf("country:france")) = 2
  /\ \E p \in ProducersOf("country:france") : producers[p].state = "resolved"
  /\ producers[LastProducer("country:france")].state = "pending"

\* C26: between any two steps no key has both a store entry and an in-flight
\* registration; the step that writes an entry leaves the key unregistered,
\* and a registration appears only in a step after which the key has no entry.
C26_EntryXorRegistration ==
  /\ [](\A k \in Keys : ~(store[k] # NoEntry /\ inFlight[k] # NoPromise))
  /\ [][\A k \in Keys :
          /\ (store[k] = NoEntry /\ store'[k] # NoEntry)
               => (inFlight[k] # NoPromise /\ inFlight'[k] = NoPromise)
          /\ (inFlight[k] = NoPromise /\ inFlight'[k] # NoPromise)
               => (store'[k] = NoEntry /\ \E r \in Requests : Arrives(r))]_vars

\* France is cached and unregistered while the fetch of Peru is in flight.
C26_Witness ==
  /\ store["country:france"] # NoEntry
  /\ inFlight["country:france"] = NoPromise
  /\ store["country:peru"] = NoEntry
  /\ inFlight["country:peru"] # NoPromise
  /\ now > store["country:france"].expiresAt

\* C27: in a 200 response every unique requested name is the country of
\* exactly one entry of ranked_results or of failed_countries, and is listed
\* in exactly one of meta.cache.hits and meta.cache.misses; analyzed plus
\* failed is the number of unique requested names.
C27_Partition ==
  \A r \in Requests :
    (req[r].pc = "done" /\ req[r].response.status = 200) =>
      LET resp == req[r].response
          unique == req[r].uniqueCountries
      IN /\ \A u \in 1..Len(unique) :
              /\ Cardinality({j \in 1..Len(resp.ranked_results) :
                                resp.ranked_results[j].country = unique[u]})
                   + Cardinality({j \in 1..Len(resp.failed_countries) :
                                resp.failed_countries[j].country = unique[u]}) = 1
              /\ (unique[u] \in resp.hits) # (unique[u] \in resp.misses)
         /\ resp.countries_analyzed + resp.countries_failed = Len(unique)

\* C28: when every provider call settles, every request that is waiting for
\* its fetches, and every getOrFetch call that is pending, comes to an end;
\* a request answers once (it never goes back from answered to waiting or
\* answers again); when no request is waiting the in-flight map is empty;
\* and a request that has answered has no pending fetch.
C28_Termination ==
  /\ \A r \in Requests :
        (\/ req[r].pc = "waiting"
         \/ \E i \in 1..Len(req[r].calls) : req[r].calls[i].state = "pending")
        ~> (/\ req[r].pc \in {"done", "gone"}
            /\ \A i \in 1..Len(req[r].calls) : req[r].calls[i].state # "pending")
  /\ []((\A r \in Requests : req[r].pc # "waiting")
          => \A k \in Keys : inFlight[k] = NoPromise)
  /\ [](\A r \in Requests :
          req[r].pc = "done" =>
            \A i \in 1..Len(req[r].calls) : req[r].calls[i].state # "pending")
  /\ [][\A r \in Requests :
          /\ req'[r].pc = "done" => req[r].pc \in {"idle", "waiting"}
          /\ req[r].pc \in {"done", "gone"} => req'[r].pc = "gone"]_vars

\* Both requests have been answered, the second just now after the last
\* provider call failed, and nothing is left in flight.
C28_Witness ==
  /\ req[1].pc = "gone"
  /\ req[2].pc = "done"
  /\ req[2].response.status = 200
  /\ req[2].response.countries_failed > 0
  /\ \A k \in Keys : inFlight[k] = NoPromise
  /\ \A p \in 1..Len(producers) : producers[p].state # "pending"
  /\ \E p \in 1..Len(producers) : producers[p].state = "rejected"

\* C29: the last reasoning sentence of every ranked result cites the
\* profile of the request it answers, names the one dimension whose weight
\* under that profile is larger than the other two, and gives that weight as
\* a whole percentage.
C29_ReasoningOwnProfile ==
  \A r \in Requests :
    (req[r].pc = "done" /\ req[r].response.status = 200) =>
      \A j \in 1..Len(req[r].response.ranked_results) :
        LET reasons == req[r].response.ranked_results[j].scores.reasoning
            reasoning == reasons[Len(reasons)]
            w == getDynamicWeights(toLowerCase(req[r].body.riskTolerance),
                                   toLowerCase(req[r].body.duration))
        IN /\ reasoning.riskTolerance = toLowerCase(req[r].body.riskTolerance)
           /\ reasoning.duration = toLowerCase(req[r].body.duration)
           /\ \E top \in DOMAIN w :
                /\ \A other \in DOMAIN w \ {top} : w[other] < w[top]
                /\ reasoning.dimension = weightNames[top]
                /\ reasoning.percent * 10 - w[top] \in -4..5

\* Two requests with different profiles are answered in the same turn from
\* one dataset object, which the second scoring has relabelled.
C29_Witness ==
  /\ req[1].pc = "done" /\ req[1].response.status = 200
  /\ req[2].pc = "done" /\ req[2].response.status = 200
  /\ req[1].rt # req[2].rt
  /\ \E i \in 1..Len(req[1].calls), j \in 1..Len(req[2].calls) :
        /\ req[1].calls[i].result = req[2].calls[j].result
        /\ req[1].calls[i].result # 0
        /\ heap[req[1].calls[i].result].found
        /\ heap[req[1].calls[i].result]._riskTolerance = req[2].rt
  /\ LET first == req[1].response.ranked_results[1].scores.reasoning
         second == req[2].response.ranked_results[1].scores.reasoning
     IN /\ first[Len(first)].riskTolerance = "low"
        /\ first[Len(first)].dimension = "Travel Safety"
        /\ first[Len(first)].percent = 48
        /\ second[Len(second)].riskTolerance = "high"
        /\ second[Len(second)].dimension = "Health Infrastructure"
        /\ second[Len(second)].percent = 42

\* C30 as stated: an arriving request is processed only if countries has 3
\* to 10 non-empty entries, riskTolerance is one of low / moderate / high and
\* duration is one of short / long, as written; any other request is
\* answered 400 and leaves the store and the in-flight map as they were.
C30_StrictValidation ==
  [][\A r \in Requests :
       Arrives(r) =>
         LET b == req'[r].body
             ok == /\ Len(b.countries) >= MIN_COUNTRIES
                   /\ Len(b.countries) <= MAX_COUNTRIES
                   /\ \A i \in 1..Len(b.countries) : b.countries[i] # ""
                   /\ b.riskTolerance \in VALID_RISK
                   /\ b.duration \in VALID_DURATION
         IN /\ req'[r].response.status # 400 => ok
            /\ ~ok => /\ req'[r].response.status = 400
                       /\ req'[r].response.validation # {}
                       /\ store' = store
                       /\ inFlight' = inFlight]_vars

\* C30: an arriving request is processed exactly if countries has 3 to 10
\* entries that are non-empty after trimming, and riskTolerance and duration
\* are, letter case aside, one of low / moderate / high and one of short /
\* long; any other request is answered 400 with the validation errors, with
\* no cache lookup and no provider call: the store, the in-flight map, the
\* producers and the datasets are as they were.
C30_ValidationGate ==
  [][\A r \in Requests :
       Arrives(r) =>
         LET b == req'[r].body
             ok == /\ Len(b.countries) >= MIN_COUNTRIES
                   /\ Len(b.countries) <= MAX_COUNTRIES
                   /\ \A i \in 1..Len(b.countries) : trim(b.countries[i]) # ""
                   /\ toLowerCase(b.riskTolerance) \in VALID_RISK
                   /\ toLowerCase(b.duration) \in VALID_DURATION
         IN IF ok
              THEN /\ req'[r].response.status # 400
                   /\ req'[r].uniqueCountries # <<>>
                   /\ Len(req'[r].calls) = Len(req'[r].uniqueCountries)
              ELSE /\ req'[r].pc = "done"
                   /\ req'[r].response.status = 400
                   /\ req'[r].response.validation # {}
                   /\ req'[r].calls = <<>>
                   /\ store' = store
                   /\ inFlight' = inFlight
                   /\ producers' = producers
                   /\ heap' = heap]_vars

\* A request written with riskTolerance "LOW" is being processed, and a
\* request with a blank country entry has just been turned down while the
\* first one's fetches are in flight.
C30_Witness ==
  /\ req[1].pc = "waiting"
  /\ req[1].body.riskTolerance = "LOW"
  /\ req[1].rt = "low"
  /\ req[2].pc = "done"
  /\ req[2].response.status = 400
  /\ req[2].response.validation = {"countries: non-empty strings"}
  /\ \E i \in 1..Len(req[2].body.countries) : req[2].body.countries[i] = " "
  /\ \E k \in Keys : inFlight[k] # NoPromise
  /\ \E k \in Keys : store[k] # NoEntry

\* C31 as stated: when the Environmental Stability score is 40 or less, the
\* sentence names the AQI only if the AQI component is not above the humidity
\* component, humidity only if the humidity component is not above the AQI
\* component, and weather volatility only if neither of the two is the
\* lowest of the four components.
C31_NamesWeakest ==
  (/\ calc.op = "scoreCountry" /\ calc.done
   /\ calc.scores.environmental_stability_score.score <= 40) =>
    LET c == calc.scores.environmental_stability_score.components
        lowest == Min(Min(c.air_quality_stability, c.humidity_comfort),
                      Min(c.temperature_volatility, c.wind_comfort))
    IN \E i \in 1..Len(calc.scores.reasoning) :
         /\ calc.scores.reasoning[i].about = "environment"
         /\ calc.scores.reasoning[i].names = <<"AQI">>
              => c.air_quality_stability <= c.humidity_comfort
         /\ calc.scores.reasoning[i].names = <<"high humidity discomfort">>
              => c.humidity_comfort <= c.air_quality_stability
         /\ calc.scores.reasoning[i].names = <<"notable weather volatility">>
              => (c.air_quality_stability > lowest /\ c.humidity_comfort > lowest)

\* C31: when the Environmental Stability score is 40 or less, the sentence
\* names the AQI if the AQI component is under 40, whatever the humidity
\* component is; else humidity if the humidity component is under 40; else
\* weather volatility.
C31_NamesByThreshold ==
  (/\ calc.op = "scoreCountry" /\ calc.done
   /\ calc.scores.environmental_stability_score.score <= 40) =>
    LET c == calc.scores.environmental_stability_score.components
        env == {i \in 1..Len(calc.scores.reasoning) :
                  calc.scores.reasoning[i].about = "environment"}
    IN /\ Cardinality(env) = 1
       /\ \A i \in env :
            /\ calc.scores.reasoning[i].tone = "challenging"
            /\ (calc.scores.reasoning[i].names = <<"AQI">>)
                 <=> (c.air_quality_stability < 40)
            /\ (calc.scores.reasoning[i].names = <<"high humidity discomfort">>)
                 <=> (c.air_quality_stability >= 40 /\ c.humidity_comfort < 40)
            /\ (calc.scores.reasoning[i].names = <<"notable weather volatility">>)
                 <=> (c.air_quality_stability >= 40 /\ c.humidity_comfort >= 40)

\* The AQI is named although the humidity component is the lower one.
C31_Witness ==
  /\ calc.op = "scoreCountry" /\ calc.done
  /\ calc.scores.environmental_stability_score.score <= 40
  /\ calc.scores.environmental_stability_score.components.air_quality_stability = 30
  /\ calc.scores.environmental_stability_score.components.humidity_comfort = 0
  /\ \E i \in 1..Len(calc.scores.reasoning) :
        /\ calc.scores.reasoning[i].about = "environment"
        /\ calc.scores.reasoning[i].names = <<"AQI">>

\* C32 as stated: when the Travel Risk score is strictly between 40 and 75,
\* the sentence names travel advisories if the advisory component is below
\* each of the other three components, and environmental conditions if it
\* is above each of them.
C32_NamesWeaker ==
  (/\ calc.op = "scoreCountry" /\ calc.done
   /\ calc.scores.travel_risk_score.score > 40
   /\ calc.scores.travel_risk_score.score < 75) =>
    LET c == calc.scores.travel_risk_score.components
        least == Min(c.air_quality, Min(c.temperature_comfort, c.weather_event))
        most == Max(c.air_quality, Max(c.temperature_comfort, c.weather_event))
    IN \E i \in 1..Len(calc.scores.reasoning) :
         /\ calc.scores.reasoning[i].about = "travel"
         /\ c.travel_advisory < least
              => calc.scores.reasoning[i].names = <<"travel advisories">>
         /\ c.travel_advisory > most
              => calc.scores.reasoning[i].names = <<"environmental conditions">>

\* C32: when the Travel Risk score is strictly between 40 and 75, the
\* sentence is the caution, and it names travel advisories exactly when the
\* advisory component is under 50, environmental conditions otherwise.
C32_NamesByThreshold ==
  (/\ calc.op = "scoreCountry" /\ calc.done
   /\ calc.scores.travel_risk_score.score > 40
   /\ calc.scores.travel_risk_score.score < 75) =>
    LET c == calc.scores.travel_risk_score.components
        travel == {i \in 1..Len(calc.scores.reasoning) :
                     calc.scores.reasoning[i].about = "travel"}
    IN /\ Cardinality(travel) = 1
       /\ \A i \in travel :
            /\ calc.scores.reasoning[i].tone = "moderate"
            /\ calc.scores.reasoning[i].names
                 = IF c.travel_advisory < 50 THEN <<"travel advisories">>
                   ELSE <<"environmental conditions">>

\* Environmental conditions are named although the advisory component, 50
\* for a missing advisory, is the lowest of the four.
C32_Witness ==
  /\ calc.op = "scoreCountry" /\ calc.done
  /\ calc.scores.travel_risk_score.score > 40
  /\ calc.scores.travel_risk_score.score < 75
  /\ calc.scores.travel_risk_score.components.travel_advisory = 50
  /\ calc.scores.travel_risk_score.components.air_quality > 50
  /\ calc.scores.travel_risk_score.components.temperature_comfort > 50
  /\ calc.scores.travel_risk_score.components.weather_event > 50
  /\ calc.scores.reasoning[1].names = <<"environmental conditions">>

\* C33: the reasoning list of every scored result is one Travel Risk
\* sentence, one Health Infrastructure sentence, an Environmental Stability
\* sentence exactly when that score is at least 70 or at most 40, and the
\* weight sentence last: 3 or 4 sentences.
C33_ReasoningOrder ==
  (calc.op = "scoreCountry" /\ calc.done) =>
    LET reasons == calc.scores.reasoning
        env == calc.scores.environmental_stability_score.score
        named == env >= 70 \/ env <= 40
        about == [i \in 1..Len(reasons) |-> reasons[i].about]
    IN about = IF named
                 THEN <<"travel", "health", "environment", "weights">>
                 ELSE <<"travel", "health", "weights">>

\* A result of three sentences: its Environmental Stability score lies
\* between 41 and 69 and no sentence is about the environment.
C33_Witness ==
  /\ calc.op = "scoreCountry" /\ calc.done
  /\ calc.scores.environmental_stability_score.score \in 41..69
  /\ Len(calc.scores.reasoning) = 3
  /\ calc.scores.reasoning[3].about = "weights"

====
